---- MODULE Spec2Model ----
(***************************************************************************)
(* State-machine model of the SoDot task store: the JSON storage engine    *)
(* (app/storage/engine.py), the task repository                            *)
(* (app/storage/repository.py), the task service (app/services/tasks.py)   *)
(* and the completion endpoints of the router (app/routers/todos.py).      *)
(*                                                                         *)
(* Conventions.  An Optional[T] value is a sequence of length at most one: *)
(* << >> is None / JSON null, <<v>> is the value v.  A text is a sequence  *)
(* of one-character strings.  A collection (a Python dict, a JSON object)  *)
(* is a sequence of [key, val] pairs in insertion order with distinct keys.*)
(***************************************************************************)
EXTENDS Integers, Sequences, FiniteSets, TLC

\* ------------------------------------------------------------------ bounds
NumProcs == 2      \* concurrent requests (asyncio tasks)
MaxIds == 2        \* uuids minted, counting those of the entries found at start
MaxOps == 2        \* calls started in one run

Procs == 1 .. NumProcs

\* ------------------------------------------------------- ids and field data
\* A generator that hands out the same identifier every time.
uuid4_repeating(n) == <<"u", 1>>

\* str(uuid.uuid4()): the n-th identifier minted by the process.
uuid4(n) == <<"u", n>>
\* An identifier no create ever mints (a caller may pass any string).
MissingId == <<"x", 0>>

None == << >>
Some(v) == <<v>>

\* datetime.date and datetime.datetime values.  tzinfo is None for a naive
\* datetime (datetime.now()) and Some(offset in seconds) for an aware one.
Date(y, m, d) == [year |-> y, month |-> m, day |-> d]
DateTime(y, mo, d, h, mi, s, us) ==
    [year |-> y, month |-> mo, day |-> d, hour |-> h, minute |-> mi,
     second |-> s, microsecond |-> us, tzinfo |-> None]

\* ----------------------------------------------- ISO 8601 text conversions
DigitChars == <<"0", "1", "2", "3", "4", "5", "6", "7", "8", "9">>
DigitChar(n) == DigitChars[n + 1]
CharDigit(c) == CHOOSE n \in 0 .. 9 : DigitChars[n + 1] = c
IsDigit(c) == \E n \in 0 .. 9 : DigitChars[n + 1] = c

RECURSIVE Pad(_, _)
\* n written with exactly w decimal digits (zero padded).
Pad(n, w) == IF w = 0 THEN << >> ELSE Pad(n \div 10, w - 1) \o <<DigitChar(n % 10)>>

RECURSIVE ParseNat(_)
\* The number written by a sequence of digit characters.
ParseNat(t) ==
    IF t = << >> THEN 0
    ELSE 10 * ParseNat(SubSeq(t, 1, Len(t) - 1)) + CharDigit(t[Len(t)])

AllDigits(t) == \A i \in 1 .. Len(t) : IsDigit(t[i])

\* date.isoformat(): YYYY-MM-DD.
DateIso(d) == Pad(d.year, 4) \o <<"-">> \o Pad(d.month, 2) \o <<"-">> \o Pad(d.day, 2)

\* The UTC offset as the JSON serializer writes it: nothing for a naive
\* datetime, Z for offset 0, otherwise +HH:MM or -HH:MM.
OffsetIso(tz) ==
    IF tz = None THEN << >>
    ELSE IF tz[1] = 0 THEN <<"Z">>
    ELSE LET a == IF tz[1] < 0 THEN 0 - tz[1] ELSE tz[1]
         IN  <<IF tz[1] < 0 THEN "-" ELSE "+">> \o Pad(a \div 3600, 2) \o <<":">>
                 \o Pad((a % 3600) \div 60, 2)

\* A datetime in JSON mode: YYYY-MM-DDTHH:MM:SS, with .ffffff when
\* microsecond # 0, followed by the UTC offset of an aware datetime.
DateTimeIso(t) ==
    DateIso(t) \o <<"T">> \o Pad(t.hour, 2) \o <<":">> \o Pad(t.minute, 2)
        \o <<":">> \o Pad(t.second, 2)
        \o (IF t.microsecond = 0 THEN << >> ELSE <<".">> \o Pad(t.microsecond, 6))
        \o OffsetIso(t.tzinfo)

\* The days of month m of year y in the Gregorian calendar, 0 when m is no month.
DaysInMonth(y, m) ==
    IF m \in {1, 3, 5, 7, 8, 10, 12} THEN 31
    ELSE IF m \in {4, 6, 9, 11} THEN 30
    ELSE IF m = 2 THEN (IF y % 4 = 0 /\ (y % 100 # 0 \/ y % 400 = 0) THEN 29 ELSE 28)
    ELSE 0

\* The text begins with YYYY-MM-DD naming a day of the calendar in years 1..9999.
StartsWithDate(t) ==
    /\ Len(t) >= 10
    /\ AllDigits(SubSeq(t, 1, 4)) /\ t[5] = "-"
    /\ AllDigits(SubSeq(t, 6, 7)) /\ t[8] = "-"
    /\ AllDigits(SubSeq(t, 9, 10))
    /\ ParseNat(SubSeq(t, 1, 4)) >= 1
    /\ ParseNat(SubSeq(t, 9, 10)) >= 1
    /\ ParseNat(SubSeq(t, 9, 10))
          <= DaysInMonth(ParseNat(SubSeq(t, 1, 4)), ParseNat(SubSeq(t, 6, 7)))

LeadingDate(t) ==
    Date(ParseNat(SubSeq(t, 1, 4)), ParseNat(SubSeq(t, 6, 7)), ParseNat(SubSeq(t, 9, 10)))

\* F applied to the value of v, which is worked out once.
Bind(v, F(_)) == CHOOSE r \in {F(x) : x \in {v}} : TRUE

\* The number of consecutive digit characters of s from position i on.
DigitRun(s, i) ==
    Bind(<<s, i>>, LAMBDA a :
      CHOOSE n \in 0 .. (IF a[2] > Len(a[1]) THEN 0 ELSE Len(a[1]) - a[2] + 1) :
          /\ \A j \in a[2] .. a[2] + n - 1 : IsDigit(a[1][j])
          /\ a[2] + n <= Len(a[1]) => ~IsDigit(a[1][a[2] + n]))

RECURSIVE Power10(_)
Power10(n) == IF n = 0 THEN 1 ELSE 10 * Power10(n - 1)

\* The microseconds written by the digits of a fraction of a second, digits
\* after the sixth dropped.
FractionMicros(f) ==
    LET k == IF Len(f) < 6 THEN Len(f) ELSE 6
    IN  ParseNat(SubSeq(f, 1, k)) * Power10(6 - k)

\* A UTC offset text: nothing, Z or z, or a sign followed by HHMM or HH:MM with
\* minutes below 60 and the whole offset below 24 hours.
\* A character outside ASCII is written by its code point: U+2212 is the
\* minus sign, which stands for a hyphen as the sign of a UTC offset.
MINUS_SIGN == "U+2212"

OffsetSeconds(z) ==
    ParseNat(SubSeq(z, 2, 3)) * 3600
        + ParseNat(IF Len(z) = 5 THEN SubSeq(z, 4, 5) ELSE SubSeq(z, 5, 6)) * 60

IsOffset(z) ==
    \/ z = << >>
    \/ z \in {<<"Z">>, <<"z">>}
    \/ /\ Len(z) \in {5, 6} /\ z[1] \in {"+", "-", MINUS_SIGN}
       /\ AllDigits(SubSeq(z, 2, 3))
       /\ Len(z) = 6 => z[4] = ":"
       /\ AllDigits(SubSeq(z, Len(z) - 1, Len(z)))
       /\ ParseNat(SubSeq(z, Len(z) - 1, Len(z))) <= 59
       /\ OffsetSeconds(z) < 86400

ParseOffset(z) ==
    IF z = << >> THEN None
    ELSE IF z \in {<<"Z">>, <<"z">>} THEN Some(0)
    ELSE Some(IF z[1] \in {"-", MINUS_SIGN} THEN 0 - OffsetSeconds(z) ELSE OffsetSeconds(z))

\* The time of day of a datetime text, s being what follows the separator:
\* HH:MM, then optionally :SS, then (after seconds only) optionally . or , and
\* one or more digits, then optionally a UTC offset, and nothing more.
HasSeconds(s) == Len(s) >= 6 /\ s[6] = ":"
HasFraction(s) == HasSeconds(s) /\ Len(s) >= 9 /\ s[9] \in {".", ","}
ZoneStart(s) ==
    IF HasFraction(s) THEN 10 + DigitRun(s, 10) ELSE IF HasSeconds(s) THEN 9 ELSE 6

IsTime(s) ==
    /\ Len(s) >= 5
    /\ AllDigits(SubSeq(s, 1, 2)) /\ s[3] = ":" /\ AllDigits(SubSeq(s, 4, 5))
    /\ ParseNat(SubSeq(s, 1, 2)) <= 23 /\ ParseNat(SubSeq(s, 4, 5)) <= 59
    /\ HasSeconds(s) => /\ Len(s) >= 8 /\ AllDigits(SubSeq(s, 7, 8))
                        /\ ParseNat(SubSeq(s, 7, 8)) <= 59
    /\ HasFraction(s) => DigitRun(s, 10) >= 1
    /\ IsOffset(SubSeq(s, ZoneStart(s), Len(s)))

\* A datetime written as a date, one of the separators T t space _ and a time.
IsDateTimeText(t) ==
    /\ StartsWithDate(t)
    /\ Len(t) >= 11 /\ t[11] \in {"T", "t", " ", "_"}
    /\ IsTime(SubSeq(t, 12, Len(t)))

DateTimeOfText(t) ==
    [year |-> ParseNat(SubSeq(t, 1, 4)), month |-> ParseNat(SubSeq(t, 6, 7)),
     day |-> ParseNat(SubSeq(t, 9, 10)),
     hour |-> ParseNat(SubSeq(t, 12, 13)), minute |-> ParseNat(SubSeq(t, 15, 16)),
     second |-> IF HasSeconds(SubSeq(t, 12, Len(t)))
                THEN ParseNat(SubSeq(t, 18, 19)) ELSE 0,
     microsecond |-> IF HasFraction(SubSeq(t, 12, Len(t)))
                     THEN FractionMicros(SubSeq(t, 21, 20 + DigitRun(t, 21))) ELSE 0,
     tzinfo |-> ParseOffset(SubSeq(t, 11 + ZoneStart(SubSeq(t, 12, Len(t))), Len(t)))]

\* ------------------------------------------------------- whole numbers
\* A number that does not fit 32 bits is a sequence of limbs in base 10^4,
\* the lowest first, with no zero limb at the top: << >> is zero.
Base == 10000

Limb(a, i) == IF i >= 1 /\ i <= Len(a) THEN a[i] ELSE 0

Trim(a) ==
    SubSeq(a, 1, CHOOSE n \in 0 .. Len(a) :
                     (n = 0 \/ a[n] # 0) /\ \A j \in n + 1 .. Len(a) : a[j] = 0)

\* The number written by a sequence of digit characters of any length.
Whole(ds) ==
    Trim([i \in 1 .. (Len(ds) + 3) \div 4 |->
            ParseNat(SubSeq(ds, IF Len(ds) - 4 * i + 1 < 1 THEN 1 ELSE Len(ds) - 4 * i + 1,
                            Len(ds) - 4 * (i - 1)))])

\* a < b
Less(a, b) ==
    \E j \in 1 .. Len(b) :
        /\ Limb(a, j) < b[j]
        /\ \A k \in j + 1 .. (IF Len(a) > Len(b) THEN Len(a) ELSE Len(b)) :
               Limb(a, k) = Limb(b, k)

\* 2 * a: a limb of 5000 or more carries one into the next.
Twice(a) ==
    [i \in 1 .. Len(a) + (IF a # << >> /\ a[Len(a)] >= 5000 THEN 1 ELSE 0) |->
        (2 * Limb(a, i) + (IF Limb(a, i - 1) >= 5000 THEN 1 ELSE 0)) % Base]

\* a + 1: the one is carried through the low limbs that are all nines.
Succ(a) ==
    Trim([i \in 1 .. Len(a) + 1 |->
            (Limb(a, i) + (IF \A j \in 1 .. i - 1 : a[j] = Base - 1 THEN 1 ELSE 0)) % Base])

\* a - b for a >= b: limb i borrows when the limbs below it make a smaller
\* number in a than in b.
Minus(a, b) ==
    Trim([i \in 1 .. Len(a) |->
            (Base + a[i] - Limb(b, i)
               - (IF Less(SubSeq(a, 1, i - 1), SubSeq(b, 1, IF i - 1 < Len(b) THEN i - 1 ELSE Len(b)))
                  THEN 1 ELSE 0)) % Base])

RECURSIVE Shl(_, _)
\* a * 2^k (a itself when k <= 0), one half of the doublings after the other.
Shl(a, k) ==
    IF k <= 0 THEN a
    ELSE IF k = 1 THEN Twice(a)
    ELSE Bind(Shl(a, k \div 2), LAMBDA h : Shl(h, k - k \div 2))

\* The quotients dealt with lie between 2^-MaxBinaryExponent and
\* 2^MaxBinaryExponent.
MaxBinaryExponent == 128

\* P or Q doubled until q <= p < 2q; e counts the doublings of Q less those of
\* P, so that P / Q is (p / q) * 2^e.
Align(P, Q) ==
    LET RECURSIVE MaxShift(_, _, _)
        \* The largest e in 0 .. k with q * 2^e <= p, for q <= p.
        MaxShift(p, q, k) ==
            IF k = 0 THEN 0
            ELSE Bind(Shl(q, (k + 1) \div 2), LAMBDA d :
                   IF Less(p, d) THEN MaxShift(p, q, (k + 1) \div 2 - 1)
                   ELSE (k + 1) \div 2 + MaxShift(p, d, k - (k + 1) \div 2))
    IN  Bind(Less(P, Q), LAMBDA under :
          Bind(IF under THEN MaxShift(Q, P, MaxBinaryExponent)
               ELSE MaxShift(P, Q, MaxBinaryExponent), LAMBDA i :
            Bind(Shl(IF under THEN P ELSE Q, i), LAMBDA d :
              IF ~under THEN [p |-> P, q |-> d, e |-> i]
              ELSE IF d = Q THEN [p |-> d, q |-> Q, e |-> 0 - i]
              ELSE [p |-> Twice(d), q |-> Q, e |-> 0 - i - 1])))

RECURSIVE Bits(_, _, _)
\* n more binary digits of a quotient, one half of them after the other: s.m
\* holds the digits so far, s.r the rest, which is below the divisor q.
Bits(s, q, n) ==
    IF n = 0 THEN s
    ELSE IF n = 1
    THEN Bind(Twice(s.r), LAMBDA r2 :
           IF Less(r2, q) THEN [m |-> Twice(s.m), r |-> r2]
           ELSE [m |-> Succ(Twice(s.m)), r |-> Minus(r2, q)])
    ELSE Bind(Bits(s, q, n \div 2), LAMBDA h : Bits(h, q, n - n \div 2))

\* floor(P / Q) in m and the fraction left as r / q, for Q > 0.
FloorParts(P, Q) ==
    IF Less(P, Q) THEN [m |-> << >>, r |-> P, q |-> Q]
    ELSE Bind(Align(P, Q), LAMBDA a :
           Bind(Bits([m |-> <<1>>, r |-> Minus(a.p, a.q)], a.q, a.e), LAMBDA s :
             [m |-> s.m, r |-> s.r, q |-> a.q]))

\* ------------------------------------------------- 64-bit floating point
\* A double other than zero is m * 2^(e - 52) with 2^52 <= m < 2^53.
\* The double nearest to P / Q for P, Q > 0, a tie going to the even m.
RoundF64(P, Q) ==
    Bind(Align(P, Q), LAMBDA a :
      Bind(Bits([m |-> <<1>>, r |-> Minus(a.p, a.q)], a.q, 52), LAMBDA s :
        Bind(Twice(s.r), LAMBDA r2 :
          IF Less(a.q, r2) \/ (r2 = a.q /\ s.m[1] % 2 = 1)
          THEN Bind(Succ(s.m), LAMBDA up :
                 IF up = Shl(<<1>>, 53) THEN [m |-> Shl(<<1>>, 52), e |-> a.e + 1]
                 ELSE [m |-> up, e |-> a.e])
          ELSE [m |-> s.m, e |-> a.e])))

\* ------------------------------------------------- Unix timestamp texts
\* A text of digits with an optional sign is read as a whole number, and from
\* its decimal point on as a double (str::parse::<f64>: digits, a point, then
\* optionally e or E, a sign and digits); either is a Unix timestamp in UTC.
MS_WATERMARK == <<0, 0, 200>>
MinDay == 0 - 719162
MaxDay == 2932896

\* An exponent of more digits than this is beyond every double.
MaxExponentDigits == 8

\* The digits without their leading zeros.
StripZeros(ds) ==
    SubSeq(ds, 1 + (CHOOSE n \in 0 .. Len(ds) :
                        /\ \A i \in 1 .. n : ds[i] = "0"
                        /\ n < Len(ds) => ds[n + 1] # "0"), Len(ds))

\* A number below 10^16 as h * 10^9 + l, which stays within 32 bits.
OfLimbs(a) ==
    [h |-> Limb(a, 4) * 1000 + Limb(a, 3) \div 10,
     l |-> (Limb(a, 3) % 10) * Base * Base + Limb(a, 2) * Base + Limb(a, 1)]

\* The digits before the point are counted in 64 bits: with each digit the
\* count becomes ten times itself plus the digit, modulo 2^64, and the text is
\* refused as soon as a count is 2^63 or more.
Wrap(digits) ==
    Bind(Shl(<<1>>, 63), LAMBDA half :
      LET RECURSIVE Mod64(_), Count(_, _)
          Mod64(a) ==
              IF Less(a, Twice(half)) THEN a
              ELSE Bind(Minus(a, Twice(half)), LAMBDA d : Mod64(d))
          \* 10 * a + d: the decimal digits move up one place.
          Times10(a, d) ==
              Trim([i \in 1 .. Len(a) + 1 |->
                      (Limb(a, i) % 1000) * 10
                         + (IF i = 1 THEN d ELSE Limb(a, i - 1) \div 1000)])
          \* The count after the digits ds, one half of them after the other.
          Count(m, ds) ==
              IF ds = << >> THEN [ok |-> TRUE, m |-> m]
              ELSE IF Len(ds) = 1
              THEN Bind(Mod64(Times10(m, CharDigit(ds[1]))), LAMBDA d :
                     [ok |-> Less(d, half), m |-> d])
              ELSE Bind(Count(m, SubSeq(ds, 1, Len(ds) \div 2)), LAMBDA h :
                     IF h.ok THEN Count(h.m, SubSeq(ds, Len(ds) \div 2 + 1, Len(ds)))
                     ELSE h)
      IN  Count(<< >>, digits))

\* The sign, the digits before and after the point and the exponent of a
\* number text.
NumberParts(t) ==
    Bind(IF t # << >> /\ t[1] \in {"+", "-"} THEN Tail(t) ELSE t, LAMBDA body :
      Bind(DigitRun(body, 1), LAMBDA k :
        Bind(DigitRun(body, k + 2), LAMBDA f :
          Bind([dot |-> k < Len(body) /\ body[k + 1] = ".",
                exp |-> k + 1 + f < Len(body) /\ body[k + 2 + f] \in {"e", "E"},
                sign |-> k + 2 + f < Len(body) /\ body[k + 3 + f] \in {"+", "-"}],
               LAMBDA has :
            Bind(k + 2 + f + (IF has.sign THEN 1 ELSE 0), LAMBDA x :
              Bind(IF has.dot /\ has.exp
                   THEN StripZeros(SubSeq(body, x + 1, x + DigitRun(body, x + 1)))
                   ELSE << >>, LAMBDA expDigits :
                Bind(IF Len(expDigits) > MaxExponentDigits THEN 1000000000
                     ELSE ParseNat(expDigits), LAMBDA size :
                  [ok |-> /\ body # << >>
                          /\ IF ~has.dot THEN k = Len(body)
                             ELSE /\ k + f >= 1
                                  /\ IF has.exp
                                     THEN x < Len(body)
                                          /\ x + DigitRun(body, x + 1) = Len(body)
                                     ELSE k + 1 + f = Len(body),
                   neg |-> t # << >> /\ t[1] = "-",
                   int |-> SubSeq(body, 1, k),
                   frac |-> IF has.dot THEN SubSeq(body, k + 2, k + 1 + f) ELSE << >>,
                   exp |-> IF has.exp /\ has.sign /\ body[k + 3 + f] = "-"
                           THEN 0 - size ELSE size,
                   float |-> has.dot])))))))

\* The whole seconds and the microseconds of a number text with a point, which
\* is read as a double x.  Beyond the watermark x counts milliseconds and is
\* divided by 1000.0; the seconds are floor(x), and the microseconds are
\* ((x - floor(x)) * 1e6).round(), where the difference and the product are
\* doubles again and a half goes up.  A number of 10^18 or more is beyond every
\* date, one below 10^-8 is zero to the microsecond.
FloatSeconds(n) ==
    LET D == StripZeros(n.int \o n.frac)
        E == n.exp - Len(n.frac)
        Zeros(k) == [i \in 1 .. k |-> "0"]
        \* A double as a fraction: Num(x) / Den(x).
        Num(x) == Shl(x.m, x.e - 52)
        Den(x) == Shl(<<1>>, 52 - x.e)
        \* a * 10^6: the decimal digits move up six places.
        Times1e6(a) ==
            Trim([i \in 1 .. Len(a) + 2 |->
                    IF i = 1 THEN 0
                    ELSE (Limb(a, i - 1) % 100) * 100 + Limb(a, i - 2) \div 100])
        Decimal == RoundF64(Whole(D \o Zeros(IF E > 0 THEN E ELSE 0)),
                            Whole(<<"1">> \o Zeros(IF E < 0 THEN 0 - E ELSE 0)))
        ScaleDown(x) ==
            IF Less(Shl(MS_WATERMARK, 52 - x.e), Num(x))
            THEN RoundF64(Num(x), Shl(<<1000>>, 52 - x.e))
            ELSE x
        Micros(f) ==
            Bind(RoundF64(Times1e6(Num(f)), Den(f)), LAMBDA y :
              Bind(FloorParts(Num(y), Den(y)), LAMBDA v :
                Limb(v.m, 1) + Base * Limb(v.m, 2)
                   + (IF Less(Twice(v.r), v.q) THEN 0 ELSE 1)))
        Split(x) ==
            Bind(FloorParts(Num(x), Den(x)), LAMBDA w :
              IF w.r = << >> THEN [ok |-> TRUE, neg |-> n.neg, abs |-> w.m, micros |-> 0]
              ELSE [ok |-> TRUE, neg |-> n.neg,
                    abs |-> IF n.neg THEN Succ(w.m) ELSE w.m,
                    micros |-> Micros(RoundF64(IF n.neg THEN Minus(w.q, w.r) ELSE w.r,
                                               w.q))])
    IN  IF D = << >> \/ Len(D) + E <= 0 - 8
        THEN [ok |-> TRUE, neg |-> FALSE, abs |-> << >>, micros |-> 0]
        ELSE IF Len(D) + E >= 19
        THEN [ok |-> FALSE, neg |-> FALSE, abs |-> << >>, micros |-> 0]
        ELSE Bind(ScaleDown(Decimal), LAMBDA x : Split(x))

\* The whole seconds and microseconds a number text stands for.
TimestampSeconds(n) ==
    Bind(Wrap(n.int), LAMBDA w :
      IF ~w.ok THEN [ok |-> FALSE, neg |-> FALSE, abs |-> << >>, micros |-> 0]
      ELSE IF n.float THEN FloatSeconds(n)
      ELSE [ok |-> TRUE, neg |-> n.neg, abs |-> w.m, micros |-> 0])

\* DateTime.from_timestamp: a count beyond the watermark is in milliseconds;
\* the result is days since 1970-01-01, seconds of that day and microseconds.
\* Seconds are kept as h * 10^9 + l so that they stay within 32 bits.
FromTimestamp(s) ==
    Bind([inMillis |-> Less(MS_WATERMARK, s.abs), b |-> OfLimbs(s.abs)], LAMBDA c :
      Bind([rest |-> c.b.l % 1000, up |-> c.inMillis /\ s.neg /\ c.b.l % 1000 # 0],
           LAMBDA d :
        Bind(IF ~c.inMillis THEN c.b
             ELSE [h |-> c.b.h \div 1000,
                   l |-> (c.b.h % 1000) * 1000000 + c.b.l \div 1000
                            + (IF d.up THEN 1 ELSE 0)], LAMBDA whole :
          Bind([second |-> IF whole.l = 1000000000 THEN [h |-> whole.h + 1, l |-> 0]
                           ELSE whole,
                total |-> s.micros + (IF ~c.inMillis THEN 0
                                      ELSE IF d.up THEN (1000 - d.rest) * 1000
                                      ELSE d.rest * 1000)], LAMBDA e :
            IF ~(s.ok /\ Len(s.abs) <= 4 /\ e.second.h <= 999)
            THEN [ok |-> FALSE, day |-> 0, ofDay |-> 0, microsecond |-> 0]
            ELSE Bind(e.second.h * 6400 + e.second.l, LAMBDA low :
                   Bind((IF s.neg THEN 0 - (low % 86400) ELSE low % 86400)
                           + e.total \div 1000000, LAMBDA ofDay :
                     Bind((IF s.neg THEN 0 - (e.second.h * 11574 + low \div 86400)
                           ELSE e.second.h * 11574 + low \div 86400)
                             + ofDay \div 86400, LAMBDA day :
                       IF day >= MinDay /\ day <= MaxDay
                       THEN [ok |-> TRUE, day |-> day, ofDay |-> ofDay % 86400,
                             microsecond |-> e.total % 1000000]
                       ELSE [ok |-> FALSE, day |-> 0, ofDay |-> 0,
                             microsecond |-> 0])))))))

\* The calendar date of a count of days since 1970-01-01.
CivilFromDays(z0) ==
    LET z == z0 + 719468
        era == z \div 146097
        doe == z - era * 146097
        yoe == (doe - doe \div 1460 + doe \div 36524 - doe \div 146096) \div 365
        doy == doe - (365 * yoe + yoe \div 4 - yoe \div 100)
        mp == (5 * doy + 2) \div 153
        m == IF mp < 10 THEN mp + 3 ELSE mp - 9
    IN  Date(yoe + era * 400 + (IF m <= 2 THEN 1 ELSE 0), m, doy - (153 * mp + 2) \div 5 + 1)

\* The reading of a number text: whether it is a timestamp in range, and then
\* its day, second of the day and microsecond.
Timestamp(t) ==
    Bind(NumberParts(t), LAMBDA n :
      IF ~n.ok THEN [ok |-> FALSE, day |-> 0, ofDay |-> 0, microsecond |-> 0]
      ELSE Bind(TimestampSeconds(n), LAMBDA s : FromTimestamp(s)))

IsTimestamp(t) == Timestamp(t).ok

DateTimeOfTimestamp(t) ==
    Bind(Timestamp(t), LAMBDA c :
      Bind(CivilFromDays(c.day), LAMBDA d :
        [DateTime(d.year, d.month, d.day, c.ofDay \div 3600, (c.ofDay % 3600) \div 60,
                  c.ofDay % 60, c.microsecond)
            EXCEPT !.tzinfo = Some(0)]))

\* ------------------------------------------ validation of date and datetime
\* A date or datetime text has a digit in fourth place and a hyphen in fifth;
\* a number text has a hyphen there only after the e of its exponent.
DateShaped(t) == Len(t) >= 5 /\ t[5] = "-" /\ t[4] \in {DigitChars[i] : i \in 1 .. 10}
IsPlainDate(t) == Len(t) = 10 /\ StartsWithDate(t)

\* A datetime field accepts a datetime text, a timestamp text, and a plain
\* YYYY-MM-DD date, which stands for its midnight.
IsDateTimeIso(t) ==
    IF DateShaped(t)
    THEN IsPlainDate(t) \/ IsDateTimeText(t)
    ELSE IsTimestamp(t)

ParseDateTime(t) ==
    IF DateShaped(t)
    THEN IF Len(t) = 10
         THEN DateTime(ParseNat(SubSeq(t, 1, 4)), ParseNat(SubSeq(t, 6, 7)),
                       ParseNat(SubSeq(t, 9, 10)), 0, 0, 0, 0)
         ELSE DateTimeOfText(t)
    ELSE DateTimeOfTimestamp(t)

\* The time of day of a datetime text or timestamp is exactly zero.
ZeroTime(t) ==
    IF DateShaped(t)
    THEN /\ ParseNat(SubSeq(t, 12, 13)) = 0 /\ ParseNat(SubSeq(t, 15, 16)) = 0
         /\ HasSeconds(SubSeq(t, 12, Len(t))) => ParseNat(SubSeq(t, 18, 19)) = 0
         /\ HasFraction(SubSeq(t, 12, Len(t)))
               => FractionMicros(SubSeq(t, 21, 20 + DigitRun(t, 21))) = 0
    ELSE Bind(Timestamp(t), LAMBDA c : c.ofDay = 0 /\ c.microsecond = 0)

\* A date field accepts a plain YYYY-MM-DD date, and whatever a datetime field
\* accepts provided its time of day is exactly zero (the UTC offset is ignored).
IsDateIso(t) ==
    \/ IsPlainDate(t)
    \/ /\ IF DateShaped(t) THEN IsDateTimeText(t) ELSE IsTimestamp(t)
       /\ ZeroTime(t)

ParseDate(t) ==
    IF DateShaped(t)
    THEN LeadingDate(t)
    ELSE Bind(Timestamp(t), LAMBDA c : CivilFromDays(c.day))

\* ------------------------------------------------------------ task records
\* The fields of a stored task (TodoItemResponse / TaskRecord).
Fields == {"id", "title", "description", "dueDate", "isCompleted", "createdAt"}
\* The fields a partial update may name (TodoItemUpdate / TaskUpdate).
UpdateFields == {"title", "description", "dueDate", "isCompleted"}

\* TaskRecord(id=new_id, createdAt=timestamp, **task_create.model_dump()).
TaskRecord(new_id, timestamp, task_create) ==
    [id |-> new_id, title |-> task_create.title, description |-> task_create.description,
     dueDate |-> task_create.dueDate, isCompleted |-> task_create.isCompleted,
     createdAt |-> timestamp]

\* record.model_dump(mode='json'): a JSON object with every field as a key,
\* dates and datetimes written as ISO texts, None written as null.
model_dump_json(r) ==
    [keys |-> Fields, id |-> r.id, title |-> r.title, description |-> r.description,
     dueDate |-> IF r.dueDate = None THEN None ELSE Some(DateIso(r.dueDate[1])),
     isCompleted |-> r.isCompleted,
     createdAt |-> DateTimeIso(r.createdAt)]

\* Whether TaskRecord(**item) validates: id, title, isCompleted and createdAt
\* are required, title and isCompleted may not be null, the date texts must
\* parse.
Decodable(item) ==
    /\ {"id", "title", "isCompleted", "createdAt"} \subseteq item.keys
    /\ item.title # None
    /\ item.isCompleted # None
    /\ ("dueDate" \in item.keys /\ item.dueDate # None) => IsDateIso(item.dueDate[1])
    /\ IsDateTimeIso(item.createdAt)

\* TaskRecord(**item) for an item that validates; absent optional keys take
\* the field default None.
Decode(item) ==
    [id |-> item.id, title |-> item.title,
     description |-> IF "description" \in item.keys THEN item.description ELSE None,
     dueDate |-> IF "dueDate" \in item.keys /\ item.dueDate # None
                 THEN Some(ParseDate(item.dueDate[1])) ELSE None,
     isCompleted |-> item.isCompleted,
     createdAt |-> ParseDateTime(item.createdAt)]

\* model_dump(exclude_none=True) in place of exclude_unset=True: a field set
\* to None is dropped like an unset one.
model_dump_exclude_none(task_update) ==
    {f \in task_update.set : task_update[f] # None}

\* task_update.model_dump(exclude_unset=True): the fields the caller set.
model_dump_exclude_unset(task_update) == task_update.set

\* A merge that rebuilds the record and so stamps it again.
model_copy_restamped(r, task_update) ==
    [id |-> r.id,
     title |-> IF "title" \in task_update.set THEN task_update.title ELSE r.title,
     description |-> IF "description" \in task_update.set
                     THEN task_update.description ELSE r.description,
     dueDate |-> IF "dueDate" \in task_update.set THEN task_update.dueDate ELSE r.dueDate,
     isCompleted |-> IF "isCompleted" \in task_update.set
                     THEN task_update.isCompleted ELSE r.isCompleted,
     createdAt |-> DateTime(2030, 1, 1, 0, 0, 0, 0)]

\* existing_record.model_copy(update=update_data): fields named by the update
\* take its values (unvalidated), every other field is copied.
model_copy(r, task_update) ==
    LET upd == model_dump_exclude_unset(task_update) IN
    [id |-> r.id,
     title |-> IF "title" \in upd THEN task_update.title ELSE r.title,
     description |-> IF "description" \in upd THEN task_update.description ELSE r.description,
     dueDate |-> IF "dueDate" \in upd THEN task_update.dueDate ELSE r.dueDate,
     isCompleted |-> IF "isCompleted" \in upd THEN task_update.isCompleted ELSE r.isCompleted,
     createdAt |-> r.createdAt]

\* ------------------------------------------------------------- collections
Keys(c) == {c[i].key : i \in 1 .. Len(c)}
Has(c, k) == \E i \in 1 .. Len(c) : c[i].key = k
Index(c, k) == CHOOSE i \in 1 .. Len(c) : c[i].key = k
\* data[k]
Get(c, k) == c[Index(c, k)].val
\* An assignment that keeps the value of a key that is already there.
Put_keep_existing(c, k, v) ==
    IF Has(c, k) THEN c ELSE Append(c, [key |-> k, val |-> v])

\* An assignment that removes the key and adds it again at the end.
Put_move_to_end(c, k, v) ==
    Append(SelectSeq(c, LAMBDA e : e.key # k), [key |-> k, val |-> v])

\* data[k] = v: replaces in place, or appends a new key.
Put(c, k, v) ==
    IF Has(c, k)
    THEN [i \in 1 .. Len(c) |-> IF c[i].key = k THEN [key |-> k, val |-> v] ELSE c[i]]
    ELSE Append(c, [key |-> k, val |-> v])
\* A removal that drops the first entry, whichever key was asked for.
DelHead(c, k) == Tail(c)

\* del data[k]
Del(c, k) == SelectSeq(c, LAMBDA e : e.key # k)

\* ------------------------------------------------------------------ inputs
\* A TaskCreate whose isCompleted defaults to True.
TaskCreate_default_completed(set, title, description, dueDate, isCompleted) ==
    [set |-> set, title |-> title,
     description |-> IF "description" \in set THEN description ELSE None,
     dueDate |-> IF "dueDate" \in set THEN dueDate ELSE None,
     isCompleted |-> IF "isCompleted" \in set THEN isCompleted ELSE Some(TRUE)]

\* TaskCreate(**fields), validated: `set` is model_fields_set; a field the
\* caller did not give takes its default (description and dueDate None,
\* isCompleted False).
TaskCreate(set, title, description, dueDate, isCompleted) ==
    [set |-> set, title |-> title,
     description |-> IF "description" \in set THEN description ELSE None,
     dueDate |-> IF "dueDate" \in set THEN dueDate ELSE None,
     isCompleted |-> IF "isCompleted" \in set THEN isCompleted ELSE Some(FALSE)]

\* TaskCreate payloads (title is a string, isCompleted a bool when given).
TaskCreates ==
    { TaskCreate({"title", "description", "dueDate"},
                 Some("a"), Some("d"), Some(Date(2025, 1, 1)), None),
      TaskCreate({"title", "isCompleted"}, Some("b"), None, None, Some(TRUE)) }

\* Values datetime.now() may return.
Timestamps ==
    { DateTime(2024, 1, 1, 0, 0, 0, 0), DateTime(2025, 12, 31, 23, 59, 58, 123456) }

\* The create calls of a run: a payload and the time of the call.
CreateCalls ==
    { <<tc, ts>> \in TaskCreates \X Timestamps :
        (tc.description = None) <=> (ts.microsecond = 0) }

\* TaskUpdate(**fields): `set` is model_fields_set, unset fields hold None.
TaskUpdate(set, title, description, dueDate, isCompleted) ==
    [set |-> set, title |-> title, description |-> description,
     dueDate |-> dueDate, isCompleted |-> isCompleted]

TaskUpdates ==
    { TaskUpdate({"title", "isCompleted"}, Some("c"), None, None, Some(TRUE)),
      TaskUpdate({"description"}, None, None, None, None),
      TaskUpdate({"dueDate", "description"}, None, Some("e"), Some(Date(2024, 12, 31)), None),
      TaskUpdate({"title"}, None, None, None, None) }

\* ------------------------------------------------------------------- state
VARIABLES
    file,      \* the backing file: [kind, doc]
    lock,      \* JsonStorageEngine._lock: [holder, waiters]
    pc,        \* where each request is
    op,        \* the call each request is running and its locals
    data,      \* each request's local `data` (the collection it read)
    ret,       \* the outcome of each request's last call
    minted,    \* the records built by create so far (the n-th holds uuid4(n))
    nops,      \* calls started so far
    reads,     \* engine reads done by each request's current call
    writes,    \* engine writes done by each request's current call
    lastWrite, \* Some(collection passed to the last completed engine write), or None
    initial,   \* the collection the file held when the process started
    perm,      \* what the process may do with the file: "rw", "r" or "none"
    engines,   \* JsonStorageEngine instances constructed so far (the n-th is n)
    db         \* the engine of the repository handed to each request (0: none yet)

vars == <<file, lock, pc, op, data, ret, minted, nops, reads, writes, lastWrite, initial, perm,
          engines, db>>

Missing == [kind |-> "missing", doc |-> << >>]
\* A file just opened with mode 'w': zero bytes, which json.load rejects.
Truncated == [kind |-> "truncated", doc |-> << >>]
\* A file whose text is not JSON.
Garbage == [kind |-> "garbage", doc |-> << >>]
\* A file holding a JSON value that is not an object.
NonMapping == [kind |-> "nonmapping", doc |-> << >>]
\* A file whose bytes are not UTF-8 text.
NotText == [kind |-> "nottext", doc |-> << >>]
\* json.dump(data, f): the file holds the collection as a JSON object.
Doc(c) == [kind |-> "doc", doc |-> c]

\* json.load of the file's text, and the isinstance(data, dict) test: a text
\* that does not parse, or parses to something else than an object, gives {}.
json_load(f) == IF f.kind = "doc" THEN f.doc ELSE << >>

\* The exception that open(path, 'r') and json.load raise past the except
\* clause of _load_from_disk, or "none": a file the process may not read,
\* bytes that do not decode.
LoadError(f, pm) ==
    IF pm = "none" THEN "OSError"
    ELSE IF f.kind = "nottext" THEN "UnicodeDecodeError"
    ELSE "none"

\* The exception open(path, 'w') raises, or "none": a file the process may
\* not write.
SaveError(pm) == IF pm = "rw" THEN "none" ELSE "OSError"

\* The collection a reader of the file would get now.
Persisted == IF file.kind = "doc" THEN file.doc ELSE << >>

NoUpdate == TaskUpdate({}, None, None, None, None)
\* An outcome of a call: kind is "None", "record", "list", "True", "False",
\* "error" (a validation error reaches the caller) or the name of the
\* exception a file operation raised; val holds the records returned.
Outcome(kind, val) == [kind |-> kind, val |-> val]
NoOutcome == Outcome("none", << >>)
Idle == [call |-> "none", name |-> "none", task_id |-> MissingId, upd |-> NoUpdate,
         record |-> None, after |-> NoOutcome, exc |-> "none"]
\* Identifiers a caller can name: those minted so far, and one never minted.
KnownIds == {uuid4(n) : n \in 1 .. Len(minted)} \cup {MissingId}
\* The update calls of a run: any payload on a minted id, and one payload on
\* the id never minted (a miss does not look at the payload).
UpdateCalls ==
    { <<id, u>> \in KnownIds \X TaskUpdates :
        id = MissingId => u = TaskUpdate({"description"}, None, None, None, None) }

\* dependencies._db_engine = JsonStorageEngine(db_path=DB_FILE_PATH): the
\* engine constructed when the module is imported, the process's first.
_db_engine == 1

\* A provider that constructs an engine for every repository it hands out.
get_repository_own_engine(constructed) ==
    [db |-> constructed + 1, engines |-> constructed + 1]

\* dependencies.get_repository(): TaskRepository(db=_db_engine); constructs
\* no engine.
get_repository(constructed) == [db |-> _db_engine, engines |-> constructed]

\* The state after construction (JsonStorageEngine.__init__, no request yet)
\* on the file f, holding the entries of the records ms, with the rights pm.
Start(f, ms, pm) ==
    /\ file = f
    /\ minted = ms
    /\ perm = pm
    /\ initial = json_load(f)
    /\ lastWrite = None
    /\ lock = [holder |-> 0, waiters |-> << >>]
    /\ pc = [p \in Procs |-> "idle"]
    /\ op = [p \in Procs |-> Idle]
    /\ data = [p \in Procs |-> << >>]
    /\ ret = [p \in Procs |-> [call |-> "none", task_id |-> MissingId,
                                 kind |-> "none", val |-> << >>]]
    /\ nops = 0
    /\ reads = [p \in Procs |-> 0]
    /\ writes = [p \in Procs |-> 0]
    /\ engines = _db_engine
    /\ db = [p \in Procs |-> 0]

\* The record of the entry an earlier run left in the file.
EarlierRecords ==
    { TaskRecord(uuid4(1), call[2], call[1]) :
        call \in {c \in CreateCalls : c[1].description # None} }

\* The process starts on no file, on a file that is not a collection, on an
\* empty collection, or on a collection an earlier run left: one entry,
\* written by a create.  The process may read and write the file.
Init ==
    \/ \E f \in {Missing, Doc(<< >>), Garbage, NonMapping, NotText} :
         Start(f, << >>, "rw")
    \/ \E record \in EarlierRecords :
         Start(Doc(<<[key |-> record.id, val |-> model_dump_json(record)]>>),
               <<record>>, "rw")

\* The process starts on the collection an earlier run left, in a file it
\* may read and not write, or neither read nor write.
InitFaults ==
    \E record \in EarlierRecords, pm \in {"r", "none"} :
        Start(Doc(<<[key |-> record.id, val |-> model_dump_json(record)]>>),
              <<record>>, pm)

\* ---------------------------------------------------------------- the gate
\* A lock whose acquire tests only the queue, not whether the lock is held.
AcquireUnlockedTest(l, p) ==
    IF l.waiters = << >>
    THEN [holder |-> p, waiters |-> << >>]
    ELSE [holder |-> l.holder, waiters |-> Append(l.waiters, p)]

\* A lock whose acquire never waits.
AcquireNoWait(l, p) == [holder |-> p, waiters |-> l.waiters]

\* asyncio.Lock.acquire(): taken at once when free with nobody queued,
\* otherwise the caller queues (FIFO).
Acquire(l, p) ==
    IF l.holder = 0 /\ l.waiters = << >>
    THEN [holder |-> p, waiters |-> << >>]
    ELSE [holder |-> l.holder, waiters |-> Append(l.waiters, p)]

\* asyncio.Lock.release(): the first waiter, if any, is woken and owns the lock.
Release(l) ==
    IF l.waiters = << >>
    THEN [holder |-> 0, waiters |-> << >>]
    ELSE [holder |-> Head(l.waiters), waiters |-> Tail(l.waiters)]

\* ------------------------------------------------------- repository logic
\* What a repository method does once its read has returned: return at once,
\* or write a collection and then return.
ReturnNow(kind, val) == [act |-> "return", data |-> << >>, out |-> Outcome(kind, val)]
WriteThen(d, kind, val) == [act |-> "write", data |-> d, out |-> Outcome(kind, val)]

\* TaskRepository.get_all: [TaskRecord(**item) for item in data.values()],
\* or the validation error of an entry that does not decode.
get_all_plan(d) ==
    IF \A i \in 1 .. Len(d) : Decodable(d[i].val)
    THEN ReturnNow("list", [i \in 1 .. Len(d) |-> Decode(d[i].val)])
    ELSE ReturnNow("error", << >>)

\* A lookup by data[task_id], which raises KeyError on a missing key.
get_by_id_plan_keyerror(d, task_id) ==
    IF ~Has(d, task_id)
    THEN ReturnNow("error", << >>)
    ELSE IF Get(d, task_id).keys = {}
         THEN ReturnNow("None", << >>)
         ELSE IF Decodable(Get(d, task_id))
              THEN ReturnNow("record", <<Decode(Get(d, task_id))>>)
              ELSE ReturnNow("error", << >>)

\* A lookup that writes the collection back when it has found its record.
get_by_id_plan_write_back(d, task_id) ==
    IF ~Has(d, task_id) \/ Get(d, task_id).keys = {}
    THEN ReturnNow("None", << >>)
    ELSE IF Decodable(Get(d, task_id))
         THEN WriteThen(d, "record", <<Decode(Get(d, task_id))>>)
         ELSE ReturnNow("error", << >>)

\* TaskRepository.get_by_id: item = data.get(task_id);
\* TaskRecord(**item) if item else None.  A missing key and an empty mapping
\* are both falsy.
get_by_id_plan(d, task_id) ==
    IF ~Has(d, task_id) \/ Get(d, task_id).keys = {}
    THEN ReturnNow("None", << >>)
    ELSE IF Decodable(Get(d, task_id))
         THEN ReturnNow("record", <<Decode(Get(d, task_id))>>)
         ELSE ReturnNow("error", << >>)

\* A create that stores the caller's fields only, without id and createdAt.
create_plan_input_only(d, record) ==
    WriteThen(Put(d, record.id, [model_dump_json(record) EXCEPT !.keys = UpdateFields]),
              "record", <<record>>)

\* A create that stores the record under another identifier than its own.
create_plan_other_key(d, record) ==
    WriteThen(Put(d, <<"u", 0>>, model_dump_json(record)), "record", <<record>>)

\* TaskRepository.create after its read:
\* data[new_id] = record.model_dump(mode='json'); write; return record.
create_plan(d, record) ==
    WriteThen(Put(d, record.id, model_dump_json(record)), "record", <<record>>)

\* An update that rewrites the collection before it tests for the id.
update_plan_write_on_miss(d, task_id, task_update) ==
    IF ~Has(d, task_id)
    THEN WriteThen(d, "None", << >>)
    ELSE IF ~Decodable(Get(d, task_id))
         THEN ReturnNow("error", << >>)
         ELSE LET updated_record == model_copy(Decode(Get(d, task_id)), task_update)
              IN WriteThen(Put(d, task_id, model_dump_json(updated_record)),
                           "record", <<updated_record>>)

\* TaskRepository.update after its read: None on a miss; else decode, merge
\* the fields the update sets, store the merged record, write, return it.
update_plan(d, task_id, task_update) ==
    IF ~Has(d, task_id)
    THEN ReturnNow("None", << >>)
    ELSE IF ~Decodable(Get(d, task_id))
         THEN ReturnNow("error", << >>)
         ELSE LET existing_record == Decode(Get(d, task_id))
                  updated_record == model_copy(existing_record, task_update)
              IN WriteThen(Put(d, task_id, model_dump_json(updated_record)),
                           "record", <<updated_record>>)

\* A delete that writes whether or not the id was there.
delete_plan_always_write(d, task_id) ==
    WriteThen(Del(d, task_id), IF Has(d, task_id) THEN "True" ELSE "False", << >>)

\* TaskRepository.delete after its read: remove, write, True; or False.
delete_plan(d, task_id) ==
    IF Has(d, task_id)
    THEN WriteThen(Del(d, task_id), "True", << >>)
    ELSE ReturnNow("False", << >>)

\* TaskService.update_task after repo.get_by_id: None when absent (or the
\* error get_by_id raised); else the record is merged and self.repo.save is
\* looked up, which TaskRepository does not define: the call raises
\* AttributeError and nothing is written.
update_task_plan(current, task_update) ==
    IF current.kind # "record"
    THEN ReturnNow(current.kind, current.val)
    ELSE ReturnNow("AttributeError", << >>)

\* A completion payload that sets the title as well.
CompletionUpdate_titled(flag) ==
    TaskUpdate({"title", "isCompleted"}, Some("done"), None, None, Some(flag))

\* TaskUpdate(isCompleted=True) / TaskUpdate(isCompleted=False)
CompletionUpdate(flag) == TaskUpdate({"isCompleted"}, None, None, None, Some(flag))

\* ----------------------------------------------------------------- actions
Call(call, name, task_id, upd, record) ==
    [call |-> call, name |-> name, task_id |-> task_id, upd |-> upd,
     record |-> record, after |-> NoOutcome, exc |-> "none"]

\* A request starts a call on the repository get_repository() hands it (by
\* itself or inside the service of get_service); the call's first await is
\* engine.read().  The request takes the lowest-numbered free slot (requests
\* are interchangeable).
Begin(p, o) ==
    /\ pc[p] = "idle"
    /\ \A q \in Procs : q < p => pc[q] # "idle"
    /\ nops < MaxOps
    /\ nops' = nops + 1
    /\ op' = [op EXCEPT ![p] = o]
    /\ pc' = [pc EXCEPT ![p] = "read"]
    /\ lock' = Acquire(lock, p)
    /\ ret' = [ret EXCEPT ![p] = [call |-> o.call, task_id |-> o.task_id,
                                  kind |-> "pending", val |-> << >>]]
    /\ reads' = [reads EXCEPT ![p] = 0]
    /\ writes' = [writes EXCEPT ![p] = 0]
    /\ data' = [data EXCEPT ![p] = << >>]
    /\ db' = [db EXCEPT ![p] = get_repository(engines).db]
    /\ engines' = get_repository(engines).engines
    /\ UNCHANGED <<file, lastWrite, initial, perm>>

\* The call returns (or raises) to its caller.
Finish(p, out) ==
    /\ pc' = [pc EXCEPT ![p] = "idle"]
    /\ ret' = [ret EXCEPT ![p] = [call |-> op[p].call, task_id |-> op[p].task_id,
                                  kind |-> out.kind, val |-> out.val]]
    /\ op' = [op EXCEPT ![p] = Idle]

\* TaskRepository.create up to its first await.
create(p) ==
    /\ Len(minted) < MaxIds
    /\ \E call \in CreateCalls :
         LET record == TaskRecord(uuid4(Len(minted) + 1), call[2], call[1]) IN
         /\ minted' = Append(minted, record)
         /\ Begin(p, Call("create", "create", record.id, NoUpdate, Some(record)))

\* TaskRepository.update up to its first await.
update(p) ==
    /\ \E call \in UpdateCalls :
         Begin(p, Call("update", "update", call[1], call[2], None))
    /\ UNCHANGED minted

\* complete_todo: repo.update(task_id, TaskUpdate(isCompleted=True)).
complete_todo(p) ==
    /\ \E task_id \in KnownIds :
         Begin(p, Call("complete_todo", "update", task_id, CompletionUpdate(TRUE), None))
    /\ UNCHANGED minted

\* incomplete_todo: repo.update(task_id, TaskUpdate(isCompleted=False)).
incomplete_todo(p) ==
    /\ \E task_id \in KnownIds :
         Begin(p, Call("incomplete_todo", "update", task_id, CompletionUpdate(FALSE), None))
    /\ UNCHANGED minted

\* TaskService.update_task up to its first await (repo.get_by_id).
update_task(p) ==
    /\ \E call \in UpdateCalls :
         Begin(p, Call("update_task", "get_by_id", call[1], call[2], None))
    /\ UNCHANGED minted

\* TaskRepository.delete up to its first await.
delete(p) ==
    /\ \E task_id \in KnownIds :
         Begin(p, Call("delete", "delete", task_id, NoUpdate, None))
    /\ UNCHANGED minted

\* TaskRepository.get_by_id up to its first await.
get_by_id(p) ==
    /\ \E task_id \in KnownIds :
         Begin(p, Call("get_by_id", "get_by_id", task_id, NoUpdate, None))
    /\ UNCHANGED minted

\* TaskRepository.get_all up to its first await.
get_all(p) ==
    /\ Begin(p, Call("get_all", "get_all", MissingId, NoUpdate, None))
    /\ UNCHANGED minted

\* A load that returns {} for a missing file without creating it.
load_from_disk_no_create(p) ==
    /\ pc[p] = "read" /\ lock.holder = p
    /\ reads' = [reads EXCEPT ![p] = @ + 1]
    /\ data' = [data EXCEPT ![p] = json_load(file)]
    /\ pc' = [pc EXCEPT ![p] = "read_exit"]
    /\ UNCHANGED <<file, lock, op, ret, minted, nops, writes, lastWrite, initial, perm, engines, db>>

\* JsonStorageEngine._load_from_disk, run under the lock by read().  A missing
\* file is created: open(path, 'w') here, json.dump({}) in save_dump.
load_from_disk(p) ==
    /\ pc[p] = "read" /\ lock.holder = p
    /\ reads' = [reads EXCEPT ![p] = @ + 1]
    /\ IF file = Missing
       THEN /\ file' = Truncated
            /\ data' = [data EXCEPT ![p] = << >>]
            /\ pc' = [pc EXCEPT ![p] = "load_dump"]
            /\ UNCHANGED op
       ELSE IF LoadError(file, perm) # "none"
       THEN /\ op' = [op EXCEPT ![p].exc = LoadError(file, perm)]
            /\ pc' = [pc EXCEPT ![p] = "raise_exit"]
            /\ UNCHANGED <<file, data>>
       ELSE /\ data' = [data EXCEPT ![p] = json_load(file)]
            /\ pc' = [pc EXCEPT ![p] = "read_exit"]
            /\ UNCHANGED <<file, op>>
    /\ UNCHANGED <<lock, ret, minted, nops, writes, lastWrite, initial, perm, engines, db>>

\* JsonStorageEngine._save_to_disk, first half: open(path, 'w') truncates
\* the file, or raises and leaves it alone.
save_open(p) ==
    /\ pc[p] = "write" /\ lock.holder = p
    /\ IF SaveError(perm) # "none"
       THEN /\ op' = [op EXCEPT ![p].exc = SaveError(perm)]
            /\ pc' = [pc EXCEPT ![p] = "raise_exit"]
            /\ UNCHANGED file
       ELSE /\ file' = Truncated
            /\ pc' = [pc EXCEPT ![p] = "write_dump"]
            /\ UNCHANGED op
    /\ UNCHANGED <<lock, data, ret, minted, nops, reads, writes, lastWrite, initial, perm, engines, db>>

\* JsonStorageEngine._save_to_disk, second half: json.dump fills the file,
\* with the caller's collection (write) or with {} (a read creating the file).
save_dump(p) ==
    /\ pc[p] \in {"write_dump", "load_dump"}
    /\ IF pc[p] = "write_dump"
       THEN /\ file' = Doc(data[p])
            /\ pc' = [pc EXCEPT ![p] = "write_exit"]
            /\ writes' = [writes EXCEPT ![p] = @ + 1]
            /\ lastWrite' = Some(data[p])
       ELSE /\ file' = Doc(<< >>)
            /\ pc' = [pc EXCEPT ![p] = "read_exit"]
            /\ UNCHANGED <<writes, lastWrite>>
    /\ UNCHANGED <<lock, op, data, ret, minted, nops, reads, initial, perm, engines, db>>

\* read() has returned (its `async with` releases the lock) and the method
\* carries out its plan up to its next await: it returns (or raises), or it
\* calls engine.write(data), asking for the lock again without an await in
\* between.
Carry(p, plan) ==
    /\ UNCHANGED <<file, minted, nops, reads, writes, lastWrite, initial, perm, engines, db>>
    /\ IF plan.act = "return"
       THEN /\ lock' = Release(lock)
            /\ Finish(p, plan.out)
            /\ UNCHANGED data
       ELSE /\ lock' = Acquire(Release(lock), p)
            /\ data' = [data EXCEPT ![p] = plan.data]
            /\ op' = [op EXCEPT ![p].after = plan.out]
            /\ pc' = [pc EXCEPT ![p] = "write"]
            /\ UNCHANGED ret

AfterRead(p, name) == pc[p] = "read_exit" /\ op[p].name = name

\* get_all after its read, called from outside the service.
get_all_return(p) ==
    /\ AfterRead(p, "get_all") /\ op[p].call = "get_all"
    /\ Carry(p, get_all_plan(data[p]))

\* get_by_id after its read, called from outside the service.
get_by_id_return(p) ==
    /\ AfterRead(p, "get_by_id") /\ op[p].call = "get_by_id"
    /\ Carry(p, get_by_id_plan(data[p], op[p].task_id))

\* create after its read.
create_write(p) ==
    /\ AfterRead(p, "create")
    /\ Carry(p, create_plan(data[p], op[p].record[1]))

\* update after its read.
update_write(p) ==
    /\ AfterRead(p, "update")
    /\ Carry(p, update_plan(data[p], op[p].task_id, op[p].upd))

\* delete after its read, called from outside the service.
delete_write(p) ==
    /\ AfterRead(p, "delete") /\ op[p].call = "delete"
    /\ Carry(p, delete_plan(data[p], op[p].task_id))

\* update_task after its repo.get_by_id: it returns None or raises.
update_task_return(p) ==
    /\ AfterRead(p, "get_by_id") /\ op[p].call = "update_task"
    /\ Carry(p, update_task_plan(get_by_id_plan(data[p], op[p].task_id).out, op[p].upd))

\* write() has returned: the lock is released and the method returns.
write_return(p) ==
    /\ pc[p] = "write_exit"
    /\ lock' = Release(lock)
    /\ Finish(p, op[p].after)
    /\ UNCHANGED <<file, data, minted, nops, reads, writes, lastWrite, initial, perm, engines, db>>

\* A write that failed is reported as done: the method returns what it
\* was going to return.
engine_raise_swallowed(p) ==
    /\ pc[p] = "raise_exit"
    /\ lock' = Release(lock)
    /\ Finish(p, IF op[p].after = NoOutcome THEN Outcome("None", << >>) ELSE op[p].after)
    /\ UNCHANGED <<file, data, minted, nops, reads, writes, lastWrite, initial, perm, engines, db>>

\* An exception that leaves read() or write() with the lock still held.
engine_raise_holding(p) ==
    /\ pc[p] = "raise_exit"
    /\ lock' = lock
    /\ Finish(p, Outcome(op[p].exc, << >>))
    /\ UNCHANGED <<file, data, minted, nops, reads, writes, lastWrite, initial, perm, engines, db>>

\* The exception of a file operation leaves read() or write() (`async with`
\* releases the lock) and the repository method, which catches nothing.
engine_raise(p) ==
    /\ pc[p] = "raise_exit"
    /\ lock' = Release(lock)
    /\ Finish(p, Outcome(op[p].exc, << >>))
    /\ UNCHANGED <<file, data, minted, nops, reads, writes, lastWrite, initial, perm, engines, db>>

Next ==
    \E p \in Procs :
        \/ create(p)
        \/ update(p)
        \/ complete_todo(p)
        \/ incomplete_todo(p)
        \/ update_task(p)
        \/ delete(p)
        \/ get_by_id(p)
        \/ get_all(p)
        \/ load_from_disk(p)
        \/ save_open(p)
        \/ save_dump(p)
        \/ get_all_return(p)
        \/ get_by_id_return(p)
        \/ create_write(p)
        \/ update_write(p)
        \/ delete_write(p)
        \/ update_task_return(p)
        \/ write_return(p)
        \/ engine_raise(p)

Spec == Init /\ [][Next]_vars

\* Entries that are not valid records, found under the id of a record: the
\* record's entry without its title, the empty mapping {}, and the record's
\* entry with a due date that is no day of the calendar (2025-02-30).
ForeignEntries(record) ==
    { [model_dump_json(record) EXCEPT !.keys = @ \ {"title"}],
      [model_dump_json(record) EXCEPT !.keys = {}],
      [model_dump_json(record) EXCEPT
          !.dueDate = Some(<<"2", "0", "2", "5", "-", "0", "2", "-", "3", "0">>)] }

\* The process starts on a file it did not write itself: a collection with
\* one entry that is not a valid record, or bytes that are not text.
InitStored ==
    \/ \E record \in EarlierRecords :
         \E item \in ForeignEntries(record) :
            Start(Doc(<<[key |-> record.id, val |-> item]>>), <<record>>, "rw")
    \/ Start(NotText, << >>, "rw")

\* The same requests on a file that holds an invalid entry.
SpecStored == InitStored /\ [][Next]_vars

\* The requests' steps on a file that cannot be written: every step of Next
\* but the second half of a save and the return from a write, which need a
\* file that opens for writing.
NextFaults ==
    \E p \in Procs :
        \/ create(p)
        \/ update(p)
        \/ complete_todo(p)
        \/ incomplete_todo(p)
        \/ update_task(p)
        \/ delete(p)
        \/ get_by_id(p)
        \/ get_all(p)
        \/ load_from_disk(p)
        \/ save_open(p)
        \/ get_all_return(p)
        \/ get_by_id_return(p)
        \/ create_write(p)
        \/ update_write(p)
        \/ delete_write(p)
        \/ update_task_return(p)
        \/ engine_raise(p)

\* The same requests on a file the process is unable to write, or to read.
SpecFaults == InitFaults /\ [][NextFaults]_vars

\* ---------------------------------------------------------------- progress
\* A file operation of the request, run in a worker thread by
\* asyncio.to_thread: it ends.
FileOperation(p) == load_from_disk(p) \/ save_open(p) \/ save_dump(p)

\* The event loop resumes the request's coroutine after its await: the
\* `async with` block is left (the lock released) and the method goes on.
Resume(p) ==
    \/ get_all_return(p) \/ get_by_id_return(p) \/ create_write(p) \/ delete_write(p)
    \/ write_return(p) \/ engine_raise(p)

\* File operations terminate and the event loop runs a coroutine that is
\* ready: while some request can take a step, one is taken.  Requests
\* arrive as they please.
Fairness == WF_vars(\E p \in Procs : FileOperation(p) \/ Resume(p))

\* The process starts on no file, or on a collection in a file it may read
\* and write, or read only, or neither.
InitLive ==
    \/ InitFaults
    \/ Start(Missing, << >>, "rw")
    \/ \E record \in EarlierRecords :
         Start(Doc(<<[key |-> record.id, val |-> model_dump_json(record)]>>),
               <<record>>, "rw")

\* The engine under requests that read (get_all, get_by_id), read and write
\* (create) and read and perhaps write (delete).
NextLive ==
    \E p \in Procs :
        \/ create(p)
        \/ delete(p)
        \/ get_by_id(p)
        \/ get_all(p)
        \/ FileOperation(p)
        \/ Resume(p)

SpecLive == InitLive /\ [][NextLive]_vars /\ Fairness

\* ------------------------------------------------------------ the service
\* A list_tasks that leaves the completed tasks out of what it returns.
list_tasks_plan_pending(d) ==
    LET plan == get_all_plan(d)
        pending == SelectSeq(plan.out.val, LAMBDA r : r.isCompleted = Some(FALSE))
    IN [plan EXCEPT !.out.val = pending]

\* TaskService.list_tasks after the repository's read:
\* return await self.repo.get_all()
list_tasks_plan(d) == get_all_plan(d)

\* TaskService.get_task after the repository's read:
\* return await self.repo.get_by_id(task_id)
get_task_plan(d, task_id) == get_by_id_plan(d, task_id)

\* TaskService.delete_task after the repository's read:
\* return await self.repo.delete(task_id)
delete_task_plan(d, task_id) == delete_plan(d, task_id)

\* TaskService.list_tasks up to its first await, inside repo.get_all.
list_tasks(p) ==
    /\ Begin(p, Call("list_tasks", "get_all", MissingId, NoUpdate, None))
    /\ UNCHANGED minted

\* TaskService.get_task up to its first await, inside repo.get_by_id.
get_task(p) ==
    /\ \E task_id \in KnownIds :
         Begin(p, Call("get_task", "get_by_id", task_id, NoUpdate, None))
    /\ UNCHANGED minted

\* TaskService.delete_task up to its first await, inside repo.delete.
delete_task(p) ==
    /\ \E task_id \in KnownIds :
         Begin(p, Call("delete_task", "delete", task_id, NoUpdate, None))
    /\ UNCHANGED minted

\* list_tasks after the read of its repo.get_all.
list_tasks_return(p) ==
    /\ AfterRead(p, "get_all") /\ op[p].call = "list_tasks"
    /\ Carry(p, list_tasks_plan(data[p]))

\* get_task after the read of its repo.get_by_id.
get_task_return(p) ==
    /\ AfterRead(p, "get_by_id") /\ op[p].call = "get_task"
    /\ Carry(p, get_task_plan(data[p], op[p].task_id))

\* delete_task after the read of its repo.delete.
delete_task_write(p) ==
    /\ AfterRead(p, "delete") /\ op[p].call = "delete_task"
    /\ Carry(p, delete_task_plan(data[p], op[p].task_id))

\* Requests through the service and requests to the repository, side by side.
NextService ==
    \E p \in Procs :
        \/ create(p)
        \/ get_all(p)
        \/ get_by_id(p)
        \/ delete(p)
        \/ list_tasks(p)
        \/ get_task(p)
        \/ delete_task(p)
        \/ load_from_disk(p)
        \/ save_open(p)
        \/ save_dump(p)
        \/ get_all_return(p)
        \/ get_by_id_return(p)
        \/ create_write(p)
        \/ delete_write(p)
        \/ list_tasks_return(p)
        \/ get_task_return(p)
        \/ delete_task_write(p)
        \/ write_return(p)
        \/ engine_raise(p)

SpecService == Init /\ [][NextService]_vars

\* ------------------------------------------------------- the create route
\* A text of n characters c.
Repeat(c, n) == [i \in 1 .. n |-> c]

\* Request bodies of POST /todos/: the keys the body holds, with the title
\* and description texts as sequences of characters.  A body without a
\* title; the titles "", "  ", 100 and 101 characters; a title and a
\* description with surrounding blanks.
CreateBodies ==
    { [set |-> {"description"}, title |-> << >>, description |-> <<"d">>],
      [set |-> {"title"}, title |-> << >>, description |-> << >>],
      [set |-> {"title"}, title |-> <<" ", " ">>, description |-> << >>],
      [set |-> {"title"}, title |-> Repeat("a", 100), description |-> << >>],
      [set |-> {"title"}, title |-> Repeat("a", 101), description |-> << >>],
      [set |-> {"title", "description"}, title |-> <<" ", "a", "b", " ">>,
       description |-> <<" ", "d", " ">>] }

\* Whether the body validates as the route's task_data: title is a required
\* str (Field(...)), description an optional str; no length is constrained.
TodoItemCreate_validates(body) == "title" \in body.set

\* The validated model: each text as it was sent.
TodoItemCreate(body) ==
    TaskCreate(body.set, Some(body.title), Some(body.description), None, None)

\* create_todo: FastAPI validates the body; a body that fails is answered
\* 422 and the handler is not entered, else the handler awaits
\* repo.create(task_data).
create_todo(p) ==
    \E body \in CreateBodies, timestamp \in {ts \in Timestamps : ts.microsecond = 0} :
        IF TodoItemCreate_validates(body)
        THEN LET record == TaskRecord(uuid4(Len(minted) + 1), timestamp,
                                      TodoItemCreate(body)) IN
             /\ Len(minted) < MaxIds
             /\ minted' = Append(minted, record)
             /\ Begin(p, Call("create_todo", "create", record.id, NoUpdate, Some(record)))
        ELSE /\ pc[p] = "idle"
             /\ \A q \in Procs : q < p => pc[q] # "idle"
             /\ nops < MaxOps
             /\ nops' = nops + 1
             /\ ret' = [ret EXCEPT ![p] = [call |-> "create_todo", task_id |-> MissingId,
                                           kind |-> "422", val |-> <<body>>]]
             /\ db' = [db EXCEPT ![p] = get_repository(engines).db]
             /\ engines' = get_repository(engines).engines
             /\ UNCHANGED <<file, lock, pc, op, data, minted, reads, writes, lastWrite,
                            initial, perm>>

\* Requests to the create route.
NextCreateTodo ==
    \E p \in Procs :
        \/ create_todo(p)
        \/ load_from_disk(p)
        \/ save_open(p)
        \/ save_dump(p)
        \/ create_write(p)
        \/ write_return(p)

SpecCreateTodo ==
    (\E f \in {Missing, Doc(<< >>)} : Start(f, << >>, "rw")) /\ [][NextCreateTodo]_vars

\* ================================================================== claims
AllIdle == \A p \in Procs : pc[p] = "idle"
MintedIds == {uuid4(n) : n \in 1 .. Len(minted)}

\* C1: when only create calls were issued and all N of them have completed,
\* the persisted collection holds the entries it started with and one entry
\* per create: N more than before, every minted id a key, none lost to
\* another create's rewrite.
C1_NoCreateLost ==
    (AllIdle /\ nops >= 1 /\ nops = Len(minted) - Len(initial))
        => (Keys(Persisted) = MintedIds /\ Len(Persisted) = Len(initial) + nops)

\* The request's file operation has begun and its lock is not yet released.
InEngine(p) ==
    pc[p] \in {"load_dump", "write_dump", "read_exit", "write_exit", "raise_exit"}

\* C2: at most one request is inside an engine read or write, that request
\* holds the engine's lock, and the file is half-written only while the
\* request writing it is inside.
C2_MutualExclusion ==
    /\ \A p, q \in Procs : (InEngine(p) /\ InEngine(q)) => p = q
    /\ \A p \in Procs : InEngine(p) => lock.holder = p
    /\ file = Truncated => \E p \in Procs : pc[p] \in {"load_dump", "write_dump"}

\* A request is half-way through a write while another one queues for the lock.
C2_Witness ==
    \E p, q \in Procs :
        /\ p # q /\ pc[p] = "write_dump" /\ file = Truncated
        /\ pc[q] \in {"read", "write"} /\ lock.waiters = <<q>>

\* The collection passed to the last completed engine write, or what the
\* file held when the engine was constructed if it has written nothing yet.
LastWritten == IF lastWrite = None THEN initial ELSE lastWrite[1]

\* C3 (amended): what an engine read returns is the collection passed to the
\* last completed engine write, or, when the engine has written nothing yet,
\* the collection the file held at construction (empty for a missing or
\* unparseable file); never the content of a write still in progress.
C3_ReadSeesLastWrite ==
    \A p \in Procs : pc[p] = "read_exit" => data[p] = LastWritten

\* A read returns a non-empty collection while another request's write is
\* requested and not yet done.
C3_Witness ==
    \E p, q \in Procs :
        /\ pc[p] = "read_exit" /\ data[p] # << >> /\ data[p] = LastWritten
        /\ pc[q] = "write" /\ data[q] # LastWritten

\* C3 (as stated): what an engine read returns is the collection passed to
\* the last completed engine write, or the empty collection when there was
\* none.
C3_ReadSeesLastWriteOrEmpty ==
    \A p \in Procs :
        pc[p] = "read_exit"
            => data[p] = (IF lastWrite = None THEN << >> ELSE lastWrite[1])

\* C4: when create's write is done, get_by_id on what is persisted gives the
\* record that create returns, equal in every field, and that record is the
\* one create built from its input.
C4_CreateRoundTrip ==
    \A p \in Procs :
        (pc[p] = "write_exit" /\ op[p].name = "create")
            => /\ op[p].after = Outcome("record", op[p].record)
               /\ get_by_id_plan(Persisted, op[p].task_id).out = op[p].after

\* A create of a record with a due date and a fractional timestamp has
\* written a collection that holds another entry too.
C4_Witness ==
    \E p \in Procs :
        /\ pc[p] = "write_exit" /\ op[p].name = "create"
        /\ op[p].record[1].dueDate # None
        /\ op[p].record[1].createdAt.microsecond # 0
        /\ Len(Persisted) = 2

\* The step in which request p, back from its read, merges an update into
\* the stored record and asks for the write.
MergeStep(p) == AfterRead(p, "update") /\ pc'[p] = "write"

\* C5: update on a stored record R with a partial update U returns a record
\* whose fields named in U have U's values and whose other fields are R's;
\* that record is what is persisted, and a following get_by_id returns it.
C5_MergeLaw ==
    [][\A p \in Procs :
         /\ MergeStep(p) =>
              LET R == Decode(Get(data[p], op[p].task_id))
                  U == op[p].upd
                  M == op'[p].after.val[1]
              IN /\ op'[p].after.kind = "record"
                 /\ \A f \in U.set : M[f] = U[f]
                 /\ \A f \in Fields \ U.set : M[f] = R[f]
                 /\ Keys(data'[p]) = Keys(data[p])
                 /\ get_by_id_plan(data'[p], op[p].task_id).out = op'[p].after
         /\ (pc'[p] = "write_exit" /\ op'[p].name = "update")
              => get_by_id_plan(file'.doc, op'[p].task_id).out = op'[p].after
      ]_vars

\* C6: an update that sets description to None stores the record without a
\* description; an update that does not mention description leaves the
\* stored description as it was.
C6_UnsetVersusNull ==
    [][\A p \in Procs :
         MergeStep(p) =>
              LET old == Get(data[p], op[p].task_id)
                  new == Get(data'[p], op[p].task_id)
                  U == op[p].upd
              IN /\ ("description" \in U.set /\ U.description = None)
                        => (new.description = None
                            /\ op'[p].after.val[1].description = None)
                 /\ "description" \notin U.set => new.description = old.description
      ]_vars

\* An update clearing the description is about to overwrite an entry whose
\* stored description is not empty.
C6_Witness ==
    \E p \in Procs :
        /\ pc[p] = "write" /\ op[p].name = "update"
        /\ "description" \in op[p].upd.set /\ op[p].upd.description = None
        /\ Has(Persisted, op[p].task_id)
        /\ Get(Persisted, op[p].task_id).description # None
        /\ Get(data[p], op[p].task_id).description = None

\* C7: the entry stored under a minted id always carries that id and the
\* creation timestamp its create gave it, whatever updates, completions
\* and deletions have run since.
C7_IdAndCreatedAtImmutable ==
    \A n \in 1 .. Len(minted) :
        Has(Persisted, uuid4(n))
            => /\ Get(Persisted, uuid4(n)).id = minted[n].id
               /\ Get(Persisted, uuid4(n)).createdAt = DateTimeIso(minted[n].createdAt)

\* An entry has been through an update and a mark-complete.
C7_Witness ==
    /\ AllIdle
    /\ Has(Persisted, uuid4(1))
    /\ \E p, q \in Procs :
        /\ ret[p].call = "update" /\ ret[p].kind = "record"
        /\ ret[q].call = "complete_todo" /\ ret[q].kind = "record"

\* C8: every key of the persisted collection is the id of the entry under it.
C8_KeyEqualsId ==
    \A i \in 1 .. Len(Persisted) :
        "id" \in Persisted[i].val.keys /\ Persisted[i].key = Persisted[i].val.id

\* Two entries are stored and an update of one of them has returned.
C8_Witness ==
    /\ AllIdle
    /\ Len(Persisted) = 2
    /\ \E p \in Procs : ret[p].call = "update" /\ ret[p].kind = "record"

\* Request p, back from its read, finds the id of its update absent.
UpdateMiss(p) ==
    \/ AfterRead(p, "update") /\ ~Has(data[p], op[p].task_id)
    \/ /\ AfterRead(p, "get_by_id") /\ op[p].call = "update_task"
       /\ get_by_id_plan(data[p], op[p].task_id).out.kind = "None"

\* C9: an update (repository update, service update_task) whose id is not
\* in the collection it read returns None in its next step, having done no
\* engine write, and the file is as it was.
C9_UpdateMissWritesNothing ==
    [][\A p \in Procs :
         (UpdateMiss(p) /\ pc'[p] # pc[p])
            => /\ pc'[p] = "idle"
               /\ ret'[p].kind = "None"
               /\ writes'[p] = 0
               /\ file' = file
      ]_vars

\* A repository update and a service update_task have both missed on a
\* collection that holds an entry.
C9_Witness ==
    /\ Persisted # << >>
    /\ \E p, q \in Procs :
        /\ pc[p] = "idle" /\ ret[p].call = "update" /\ ret[p].kind = "None"
        /\ reads[p] = 1 /\ writes[p] = 0
        /\ pc[q] = "idle" /\ ret[q].call = "update_task" /\ ret[q].kind = "None"
        /\ reads[q] = 1 /\ writes[q] = 0

\* C10: a delete whose id is not in the collection it read returns False in
\* its next step, having done no engine write, and the file is as it was;
\* so a repeated delete reads the same collection and does the same.
C10_DeleteMissWritesNothing ==
    [][\A p \in Procs :
         (AfterRead(p, "delete") /\ ~Has(data[p], op[p].task_id) /\ pc'[p] # pc[p])
            => /\ pc'[p] = "idle"
               /\ ret'[p].kind = "False"
               /\ writes'[p] = 0
               /\ file' = file
      ]_vars

\* Two deletes of an absent id have both returned False on a collection
\* that holds an entry.
C10_Witness ==
    /\ Persisted # << >>
    /\ \E p, q \in Procs :
        /\ p # q
        /\ pc[p] = "idle" /\ ret[p].call = "delete" /\ ret[p].kind = "False"
        /\ pc[q] = "idle" /\ ret[q].call = "delete" /\ ret[q].kind = "False"
        /\ ret[p].task_id = ret[q].task_id
        /\ writes[p] = 0 /\ writes[q] = 0

\* C11: a delete that finds its id in the collection it read (which is the
\* persisted one) asks for the write of that collection with exactly that
\* key removed, every other entry present and unchanged; the write persists
\* it, a get_by_id on what is persisted reports the id absent, and the
\* delete returns True.
C11_DeleteRemovesExactlyThatKey ==
    [][\A p \in Procs :
         /\ (AfterRead(p, "delete") /\ Has(data[p], op[p].task_id) /\ pc'[p] # pc[p])
              => /\ data[p] = Persisted
                 /\ pc'[p] = "write"
                 /\ op'[p].after = Outcome("True", << >>)
                 /\ Keys(data'[p]) = Keys(data[p]) \ {op[p].task_id}
                 /\ Len(data'[p]) = Len(data[p]) - 1
                 /\ \A k \in Keys(data'[p]) : Get(data'[p], k) = Get(data[p], k)
         /\ (pc[p] = "write_dump" /\ op[p].name = "delete" /\ pc'[p] = "write_exit")
              => /\ file' = Doc(data[p])
                 /\ get_by_id_plan(file'.doc, op[p].task_id).out = Outcome("None", << >>)
         /\ (pc[p] = "write_exit" /\ op[p].name = "delete" /\ pc'[p] = "idle")
              => ret'[p].kind = "True"
      ]_vars

\* A delete has written a collection that still holds the other entry.
C11_Witness ==
    \E p \in Procs :
        /\ pc[p] = "write_exit" /\ op[p].name = "delete"
        /\ Len(Persisted) = 1 /\ Len(minted) = 2
        /\ ~Has(Persisted, op[p].task_id)

\* Request p, back from its read, runs a call that names the id never minted.
NeverCreated(p) ==
    /\ pc[p] = "read_exit" /\ op[p].task_id = MissingId
    /\ op[p].call \in {"get_by_id", "update", "update_task", "complete_todo",
                       "incomplete_todo", "delete"}

\* C12: get_by_id, update (repository, service, mark-complete and
\* mark-incomplete) and delete on an id that was never created end in their
\* next step with the plain value None (False for delete), not with an
\* exception, having called no engine write and leaving the file as it was.
C12_NeverCreatedReportsNotFound ==
    [][\A p \in Procs :
         (NeverCreated(p) /\ pc'[p] # pc[p])
            => /\ pc'[p] = "idle"
               /\ ret'[p].kind = (IF op[p].call = "delete" THEN "False" ELSE "None")
               /\ ret'[p].val = << >>
               /\ writes'[p] = 0
               /\ file' = file
      ]_vars

\* A get_by_id and a delete of the id never minted have both returned, on a
\* collection that holds an entry.
C12_Witness ==
    /\ AllIdle /\ Persisted # << >>
    /\ \E p, q \in Procs :
        /\ ret[p].call = "get_by_id" /\ ret[p].task_id = MissingId /\ ret[p].kind = "None"
        /\ ret[q].call = "delete" /\ ret[q].task_id = MissingId /\ ret[q].kind = "False"

\* C13: the id a create mints differs from every key of the collection it
\* read (which is the persisted one) and from every other id minted; create
\* asks for the write of that collection with one entry appended, keyed by
\* the record's id, the earlier entries unchanged, and the write persists
\* it; run alone, it leaves the initial collection plus that one entry.
C13_CreateAddsOneFreshEntry ==
    [][\A p \in Procs :
         /\ \A m, n \in 1 .. Len(minted') : m # n => minted'[m].id # minted'[n].id
         /\ (AfterRead(p, "create") /\ pc'[p] # pc[p])
              => LET record == op[p].record[1] IN
                 /\ data[p] = Persisted
                 /\ ~Has(data[p], record.id)
                 /\ pc'[p] = "write"
                 /\ op'[p].after = Outcome("record", <<record>>)
                 /\ Len(data'[p]) = Len(data[p]) + 1
                 /\ SubSeq(data'[p], 1, Len(data[p])) = data[p]
                 /\ data'[p][Len(data'[p])].key = record.id
                 /\ Decode(data'[p][Len(data'[p])].val) = record
         /\ (pc[p] = "write_dump" /\ op[p].name = "create" /\ pc'[p] = "write_exit")
              => /\ file' = Doc(data[p])
                 /\ nops = 1 => /\ Len(data[p]) = Len(initial) + 1
                                /\ SubSeq(data[p], 1, Len(initial)) = initial
      ]_vars

\* A create run alone on a collection that held an entry has written both.
C13_Witness ==
    \E p \in Procs :
        /\ pc[p] = "write_exit" /\ op[p].name = "create" /\ nops = 1
        /\ initial # << >> /\ Len(Persisted) = 2
        /\ Persisted[1] = initial[1] /\ Persisted[2].key = op[p].task_id

\* C14: on an empty store, the first create, given an input that does not
\* set isCompleted, returns a record with the minted id, the creation
\* timestamp of the call and isCompleted False, and get_all on what it
\* persisted returns exactly that record.
C14_FirstCreateOnEmptyStore ==
    \A p \in Procs : \A call \in CreateCalls :
        ( /\ pc[p] = "write_exit" /\ op[p].name = "create"
          /\ nops = 1 /\ initial = << >>
          /\ "isCompleted" \notin call[1].set
          /\ op[p].record[1] = TaskRecord(uuid4(1), call[2], call[1]) )
        => /\ op[p].after.kind = "record"
           /\ op[p].after.val[1].id = uuid4(1)
           /\ op[p].after.val[1].createdAt = call[2]
           /\ op[p].after.val[1].isCompleted = Some(FALSE)
           /\ op[p].after.val[1].title = call[1].title
           /\ get_all_plan(Persisted).out = Outcome("list", op[p].after.val)

\* The first create on a store that had no file was given a title, a
\* description and a due date, and its write is done.
C14_Witness ==
    \E p \in Procs :
        /\ pc[p] = "write_exit" /\ op[p].name = "create"
        /\ nops = 1 /\ initial = << >> /\ lastWrite # None
        /\ op[p].record[1].title = Some("a")
        /\ op[p].record[1].isCompleted = Some(FALSE)
        /\ Len(Persisted) = 1

\* Request p, back from its read, runs a mark-complete or mark-incomplete.
Completion(p) ==
    AfterRead(p, "update") /\ op[p].call \in {"complete_todo", "incomplete_todo"}

\* C15: mark-complete and mark-incomplete run repository update with a
\* payload that sets isCompleted only (True, respectively False).  On an id
\* whose stored entry is a valid record the merged record has that flag and
\* every other field as stored, and so has the entry to be written; on an
\* absent id the call returns None.
C15_CompletionFlipsOnlyIsCompleted ==
    [][\A p \in Procs :
         (Completion(p) /\ pc'[p] # pc[p])
            => LET flag == (op[p].call = "complete_todo")
                   id == op[p].task_id
               IN /\ op[p].upd.set = {"isCompleted"}
                  /\ op[p].upd.isCompleted = Some(flag)
                  /\ ~Has(data[p], id) => (pc'[p] = "idle" /\ ret'[p].kind = "None")
                  /\ (Has(data[p], id) /\ Decodable(Get(data[p], id)))
                       => LET R == Decode(Get(data[p], id))
                              M == op'[p].after.val[1]
                          IN /\ pc'[p] = "write" /\ op'[p].after.kind = "record"
                             /\ M.isCompleted = Some(flag)
                             /\ \A f \in Fields \ {"isCompleted"} : M[f] = R[f]
                             /\ Decode(Get(data'[p], id)) = M
                             /\ \A f \in Fields \ {"isCompleted"} :
                                  Get(data'[p], id)[f] = Get(data[p], id)[f]
                             /\ Keys(data'[p]) = Keys(data[p])
      ]_vars

\* A mark-incomplete is about to write False over the True that a
\* mark-complete stored in an entry created not completed.
C15_Witness ==
    \E p \in Procs :
        /\ pc[p] = "write" /\ op[p].call = "incomplete_todo" /\ nops = 2
        /\ initial # << >> /\ initial[1].val.isCompleted = Some(FALSE)
        /\ Has(Persisted, op[p].task_id)
        /\ Get(Persisted, op[p].task_id).isCompleted = Some(TRUE)
        /\ Get(Persisted, op[p].task_id).title = initial[1].val.title
        /\ Get(data[p], op[p].task_id).isCompleted = Some(FALSE)
        /\ Get(data[p], op[p].task_id).title = initial[1].val.title

\* C16: an engine read that finds no file creates it (open, then dump of
\* the empty collection) and returns the empty collection; the file is
\* never missing again once a read is past its load, and a read of the file
\* so created returns the empty collection and leaves the file as it is.
C16_ReadCreatesMissingFile ==
    [][\A p \in Procs :
         /\ (pc[p] = "read" /\ file = Missing /\ pc'[p] # pc[p])
              => (pc'[p] = "load_dump" /\ file' = Truncated)
         /\ (pc[p] = "load_dump" /\ pc'[p] # pc[p])
              => (pc'[p] = "read_exit" /\ file' = Doc(<< >>) /\ data'[p] = << >>
                  /\ lock'.holder = p)
         /\ (pc[p] = "read" /\ file = Doc(<< >>) /\ pc'[p] # pc[p])
              => (pc'[p] = "read_exit" /\ file' = file /\ data'[p] = << >>)
         /\ pc'[p] \notin {"idle", "read"} => file' # Missing
      ]_vars

\* A read is creating the missing file while another read waits for the lock.
C16_Witness ==
    \E p, q \in Procs :
        /\ pc[p] = "load_dump" /\ file = Truncated /\ initial = << >>
        /\ pc[q] = "read" /\ lock.holder = p /\ lock.waiters = <<q>>
        /\ op[q].name = "get_all"

\* C17: an engine read of a file that exists and holds no valid collection
\* document (text that is not JSON, a JSON value that is not an object,
\* bytes that are not text) returns the empty collection, leaves the file as
\* it is and raises nothing.
C17_InvalidFileReadsEmpty ==
    [][\A p \in Procs :
         ( /\ pc[p] = "read" /\ pc'[p] # pc[p]
           /\ file.kind \in {"garbage", "nonmapping", "nottext"} )
         => (pc'[p] = "read_exit" /\ data'[p] = << >> /\ file' = file)
      ]_vars

\* Request p, back from its read, runs get_by_id or update on an id whose
\* stored entry is not a valid record, or get_all on a collection that
\* holds such an entry.
ReadsInvalidEntry(p) ==
    /\ pc[p] = "read_exit"
    /\ \/ /\ op[p].name \in {"get_by_id", "update"}
          /\ Has(data[p], op[p].task_id)
          /\ ~Decodable(Get(data[p], op[p].task_id))
       \/ /\ op[p].name = "get_all"
          /\ \E i \in 1 .. Len(data[p]) : ~Decodable(data[p][i].val)

\* C18: get_by_id, update and get_all that meet a stored entry which is not
\* a valid record (a required field missing, the empty mapping) end in
\* their next step with an error, not with None as for an absent id.
C18_InvalidEntryIsAnError ==
    [][\A p \in Procs :
         (ReadsInvalidEntry(p) /\ pc'[p] # pc[p])
            => (pc'[p] = "idle" /\ ret'[p].kind = "error")
      ]_vars

\* C19: at every point of an engine write (the process may stop there) a
\* reader of the file gets the complete old collection or the complete new
\* one.
C19_FileIsOldOrNew ==
    \A p \in Procs :
        pc[p] \in {"write_dump", "write_exit"}
            => json_load(file) \in {LastWritten, data[p]}

\* C20: when the file operation of an engine read or write fails with an
\* I/O failure, the file is left as it was, the call does nothing more (no
\* second attempt, no write completed) and ends in its next step with that
\* failure as its outcome: not None, not False, and not the record or True
\* it was going to return.
C20_IoFailureIsTheOutcome ==
    [][\A p \in Procs :
         /\ (pc[p] = "read" /\ perm = "none" /\ pc'[p] # pc[p])
              => (pc'[p] = "raise_exit" /\ op'[p].exc = "OSError" /\ file' = file)
         /\ (pc[p] = "write" /\ perm # "rw" /\ pc'[p] # pc[p])
              => (pc'[p] = "raise_exit" /\ op'[p].exc = "OSError" /\ file' = file)
         /\ (pc[p] = "raise_exit" /\ pc'[p] # pc[p])
              => /\ pc'[p] = "idle"
                 /\ ret'[p].kind = op[p].exc
                 /\ ret'[p].kind \notin {"None", "False", "True", "record", "list"}
                 /\ ret'[p].val = << >>
                 /\ writes'[p] = 0
                 /\ file' = file
      ]_vars

\* A create and a delete of a stored id have both read the collection,
\* failed in their write and returned the failure; the file is as it was.
C20_Witness ==
    /\ AllIdle /\ perm = "r" /\ Persisted = initial /\ Len(Persisted) = 1
    /\ \E p, q \in Procs :
        /\ ret[p].call = "create" /\ ret[p].kind = "OSError" /\ reads[p] = 1
        /\ ret[q].call = "delete" /\ ret[q].kind = "OSError" /\ reads[q] = 1
        /\ Has(Persisted, ret[q].task_id)

\* The request is an update that found its id and merged a record.
MergedUpdate(p) ==
    /\ op[p].name = "update"
    /\ op[p].after.kind = "record"

\* The call that returned was an update of task_id that returned a record.
UpdateDone(q, task_id) ==
    /\ pc[q] = "idle"
    /\ ret[q].call \in {"update", "complete_todo", "incomplete_todo"}
    /\ ret[q].task_id = task_id
    /\ ret[q].kind = "record"

\* C21: two updates of the same id, no version check.  When the second of
\* them has done its engine write, the entry persisted under the id is the
\* merged record of that write, whatever the other update wrote and
\* returned; and when both have returned, and the engine's last write is
\* still the one of them (no write is under way), the entry persisted
\* under the id is the merged record that one returned.
C21_LastWriteWins ==
    /\ \A p, q \in Procs :
         (pc[p] = "write_exit" /\ MergedUpdate(p) /\ UpdateDone(q, op[p].task_id))
            => /\ Has(Persisted, op[p].task_id)
               /\ Get(Persisted, op[p].task_id) = model_dump_json(op[p].after.val[1])
               /\ lastWrite = Some(data[p])
    /\ \A p, q \in Procs :
         (/\ p # q /\ UpdateDone(p, ret[q].task_id) /\ UpdateDone(q, ret[q].task_id)
          /\ lastWrite = Some(data[p])
          /\ \A r \in Procs : pc[r] # "write_dump")
            => /\ Persisted = data[p]
               /\ Has(Persisted, ret[q].task_id)
               /\ Get(Persisted, ret[q].task_id) = model_dump_json(ret[p].val[1])

\* Two updates of one id both read the stored record before either wrote;
\* the first has returned its merged record, the second has just written,
\* and the entry is the second's record, without the field the first set.
C21_Witness ==
    \E p, q \in Procs :
        /\ pc[p] = "write_exit" /\ MergedUpdate(p) /\ UpdateDone(q, op[p].task_id)
        /\ p # q
        /\ ret[q].call = "update" /\ ret[q].val[1].title = Some("c")
        /\ op[p].after.val[1].title = Some("a")
        /\ op[p].after.val[1].description = Some("e")
        /\ Get(Persisted, op[p].task_id) = model_dump_json(op[p].after.val[1])

\* The repository method a service method delegates to.
RepositoryMethod(call) ==
    CASE call = "list_tasks" -> "get_all"
      [] call = "get_task" -> "get_by_id"
      [] call = "delete_task" -> "delete"

\* What the repository method answers on the collection d its read
\* returned, where the call went on to make `written` engine writes.
RepositoryAnswer(method, d, task_id, written) ==
    CASE method = "get_all" -> get_all_plan(d).out
      [] method = "get_by_id" -> get_by_id_plan(d, task_id).out
      [] method = "delete" -> Outcome(IF written = 1 THEN "True" ELSE "False", << >>)

\* The call has returned a result (no failure of a file operation).
Returned(p, call) ==
    /\ pc[p] = "idle" /\ ret[p].call = call
    /\ ret[p].kind \in {"None", "record", "list", "True", "False", "error"}

\* C22: list_tasks, get_task(id) and delete_task(id) are the repository's
\* get_all, get_by_id(id) and delete(id): one repository call (one engine
\* read, and one engine write exactly when a delete removes), the
\* repository's answer returned as it is; and a service call and the
\* repository call with the same argument that met the same collection and
\* did the same writes returned the same result.
C22_ServiceDelegates ==
    /\ \A p \in Procs, call \in {"list_tasks", "get_task", "delete_task"} :
         Returned(p, call)
            => /\ reads[p] = 1
               /\ writes[p] = (IF ret[p].kind = "True" THEN 1 ELSE 0)
               /\ [kind |-> ret[p].kind, val |-> ret[p].val]
                    = RepositoryAnswer(RepositoryMethod(call), data[p],
                                       ret[p].task_id, writes[p])
               /\ call = "delete_task" => ~Has(data[p], ret[p].task_id)
    /\ \A p, q \in Procs, call \in {"list_tasks", "get_task", "delete_task"} :
         (/\ pc[p] = "idle" /\ ret[p].call = call
          /\ pc[q] = "idle" /\ ret[q].call = RepositoryMethod(call)
          /\ ret[p].task_id = ret[q].task_id
          /\ data[p] = data[q] /\ writes[p] = writes[q]
          /\ ret[p].kind # "pending" /\ ret[q].kind # "pending")
            => /\ ret[p].kind = ret[q].kind /\ ret[p].val = ret[q].val
               /\ reads[p] = reads[q]

\* list_tasks and get_all have both returned the same list of one record,
\* decoded from the stored entry.
C22_Witness ==
    \E p, q \in Procs :
        /\ Returned(p, "list_tasks") /\ Returned(q, "get_all")
        /\ ret[p].kind = "list" /\ ret[p].val = ret[q].val
        /\ Len(ret[p].val) = 1 /\ ret[p].val[1].dueDate = Some(Date(2025, 1, 1))

\* C23: the process holds one engine, the one constructed at import, and
\* the repository of every request refers to it: any two requests that
\* were handed a repository hold the same engine, so the same lock, and a
\* request inside a file operation is inside that engine.
C23_OneEngine ==
    /\ engines = 1
    /\ \A p \in Procs : db[p] \in {0, _db_engine}
    /\ \A p, q \in Procs : (db[p] # 0 /\ db[q] # 0) => db[p] = db[q]
    /\ \A p \in Procs : (pc[p] # "idle" \/ InEngine(p)) => db[p] = _db_engine

\* Two requests, each with its own repository, are in their calls at the
\* same time, one inside the engine and one waiting for its lock.
C23_Witness ==
    \E p, q \in Procs :
        /\ p # q /\ db[p] = _db_engine /\ db[q] = _db_engine
        /\ InEngine(p) /\ pc[q] \in {"read", "write"} /\ lock.waiters = <<q>>

\* Blank characters, and a text without its leading and trailing blanks.
Whitespace == {" ", "\t", "\n"}
Strip(t) ==
    LET inked == {i \in 1 .. Len(t) : t[i] \notin Whitespace} IN
    IF inked = {} THEN << >>
    ELSE SubSeq(t, CHOOSE i \in inked : \A j \in inked : i <= j,
                   CHOOSE i \in inked : \A j \in inked : i >= j)

\* A title as the service may receive it: trimmed, of 1 to 100 characters.
TitleAccepted(t) == t = Strip(t) /\ Len(t) >= 1 /\ Len(t) <= 100

\* C24: a create whose title is empty or longer than 100 characters after
\* trimming is rejected before anything is called: every create under way
\* and every stored entry has a trimmed title of 1 to 100 characters and a
\* trimmed description; and a body is rejected only when it has no title or
\* its trimmed title is empty or longer than 100 characters (one of exactly
\* 100 is accepted).
C24_CreateValidated ==
    /\ \A p \in Procs :
         op[p].call = "create_todo"
            => /\ TitleAccepted(op[p].record[1].title[1])
               /\ op[p].record[1].description # None
                    => op[p].record[1].description[1] = Strip(op[p].record[1].description[1])
    /\ \A i \in 1 .. Len(Persisted) : TitleAccepted(Persisted[i].val.title[1])
    /\ \A p \in Procs :
         (ret[p].call = "create_todo" /\ ret[p].kind = "422")
            => \/ "title" \notin ret[p].val[1].set
               \/ Len(Strip(ret[p].val[1].title)) \notin 1 .. 100

\* The keys of a collection in its order.
KeySeq(c) == [i \in 1 .. Len(c) |-> c[i].key]

\* Entries an earlier run may have left in the file.
MaxStored == 3

\* The process starts as in Init, or on a collection of two entries or more
\* that earlier runs left, each written by a create.
InitOrder ==
    LET record(i) ==
            LET call == CHOOSE c \in CreateCalls : (c[1].description # None) <=> (i % 2 = 1)
            IN  TaskRecord(uuid4(i), call[2], call[1])
    IN  \/ Init
        \/ \E n \in 2 .. MaxStored :
             Start(Doc([i \in 1 .. n |->
                          [key |-> uuid4(i), val |-> model_dump_json(record(i))]]),
                   [i \in 1 .. n |-> record(i)], "rw")

\* The same requests on collections of several entries.
SpecOrder == InitOrder /\ [][Next]_vars

\* C25: get_all returns one record per entry of the collection its read
\* returned, in that collection's order, which is the order of the file; and
\* the collection a mutation goes on to write keeps that order: create adds
\* its entry last, update leaves its entry in place, delete takes its entry
\* out and leaves the other entries as they are, any two of them in the order
\* they had.
C25_InsertionOrder ==
    [][\A p \in Procs :
         /\ (pc[p] = "read" /\ pc'[p] = "read_exit" /\ file.kind = "doc")
              => data'[p] = file.doc
         /\ (pc[p] = "read_exit" /\ op[p].name = "get_all" /\ ret'[p].kind = "list")
              => /\ Len(ret'[p].val) = Len(data[p])
                 /\ \A i \in 1 .. Len(data[p]) :
                      /\ ret'[p].val[i] = Decode(data[p][i].val)
                      /\ ret'[p].val[i].id = data[p][i].key
         /\ (pc[p] = "read_exit" /\ pc'[p] = "write" /\ op[p].name = "create"
               /\ ~Has(data[p], op[p].task_id))
              => KeySeq(data'[p]) = Append(KeySeq(data[p]), op[p].task_id)
         /\ (pc[p] = "read_exit" /\ pc'[p] = "write" /\ op[p].name = "update"
               /\ Has(data[p], op[p].task_id))
              => /\ KeySeq(data'[p]) = KeySeq(data[p])
                 /\ \A i \in 1 .. Len(data[p]) :
                      data[p][i].key # op[p].task_id => data'[p][i] = data[p][i]
         /\ (pc[p] = "read_exit" /\ pc'[p] = "write" /\ op[p].name = "delete")
              => /\ Keys(data'[p]) = Keys(data[p]) \ {op[p].task_id}
                 /\ Len(data'[p]) = Len(data[p]) - 1
                 /\ \A a, b \in Keys(data'[p]) :
                      /\ Get(data'[p], a) = Get(data[p], a)
                      /\ Index(data'[p], a) < Index(data'[p], b)
                           <=> Index(data[p], a) < Index(data[p], b)
         /\ (pc[p] = "write_dump" /\ pc'[p] = "write_exit")
              => file'.doc = data[p]
      ]_vars

\* Of three entries the first was updated and then the second deleted: the
\* delete has written, and the file holds the first entry, as the update
\* wrote it, followed by the third.
C25_Witness ==
    \E p, q \in Procs :
        /\ pc[p] = "write_exit" /\ op[p].name = "delete" /\ op[p].task_id = uuid4(2)
        /\ pc[q] = "idle" /\ ret[q].call = "update" /\ ret[q].kind = "record"
        /\ ret[q].task_id = uuid4(1)
        /\ KeySeq(Persisted) = <<uuid4(1), uuid4(3)>>
        /\ Persisted[1].val = model_dump_json(ret[q].val[1])
        /\ Persisted[1].val # initial[1].val
        /\ Persisted[2] = initial[3]

\* The calls that are one repository method.
RepositoryCalls ==
    {"create", "update", "complete_todo", "incomplete_todo", "delete", "get_all", "get_by_id"}

\* C26: a repository method does one engine read, then, when it is a create,
\* an update that found its id or a delete that found its id, one engine
\* write of the whole collection it holds; get_all, get_by_id and an update
\* or delete that missed do the read and no write.  The write comes after
\* the read and the file then holds exactly the collection written.
C26_OneReadOneWrite ==
    \A p \in Procs :
        /\ (pc[p] = "idle" /\ ret[p].call \in RepositoryCalls
              /\ ret[p].kind \in {"record", "list", "None", "True", "False"})
             => /\ reads[p] = 1
                /\ writes[p] =
                     (IF \/ ret[p].call = "create"
                         \/ ret[p].call \in {"update", "complete_todo", "incomplete_todo"}
                              /\ ret[p].kind = "record"
                         \/ ret[p].call = "delete" /\ ret[p].kind = "True"
                      THEN 1 ELSE 0)
        /\ (pc[p] # "idle" /\ op[p].call \in RepositoryCalls)
             => /\ reads[p] = (IF pc[p] = "read" THEN 0 ELSE 1)
                /\ writes[p] = (IF pc[p] = "write_exit" THEN 1 ELSE 0)
                /\ pc[p] \in {"write", "write_dump", "write_exit"}
                     => op[p].name \in {"create", "update", "delete"}
                /\ pc[p] = "write_exit" => file = Doc(data[p])

\* A create and a delete that missed have both returned: one read and one
\* write, one read and no write.
C26_Witness ==
    \E p, q \in Procs :
        /\ pc[p] = "idle" /\ ret[p].call = "create" /\ ret[p].kind = "record"
        /\ reads[p] = 1 /\ writes[p] = 1
        /\ pc[q] = "idle" /\ ret[q].call = "delete" /\ ret[q].kind = "False"
        /\ reads[q] = 1 /\ writes[q] = 0
        /\ Len(Persisted) = 2

\* C27: a create, update or delete that targets one id leaves the entry of
\* every other id alone: when its engine write completes, each other id is
\* in the file exactly if it was there before this write, with the same
\* entry (not changed, not removed, not brought back).
C27_OtherIdsUntouched ==
    [][\A p \in Procs :
         (pc[p] = "write_dump" /\ pc'[p] = "write_exit")
            => \A other \in (Keys(LastWritten) \cup Keys(Persisted')) \ {op[p].task_id} :
                 /\ Has(LastWritten, other) /\ Has(Persisted', other)
                 /\ Get(LastWritten, other) = Get(Persisted', other)
      ]_vars

\* C28: once a delete of an id has returned True, the id is not a key of
\* the persisted collection again, whatever else was under way when the
\* delete wrote; and create mints no id twice.
C28_DeletedStaysDeleted ==
    /\ \A q \in Procs :
         (pc[q] = "idle" /\ ret[q].call = "delete" /\ ret[q].kind = "True")
            => ~Has(Persisted, ret[q].task_id)
    /\ \A i, j \in 1 .. Len(minted) : minted[i].id = minted[j].id => i = j

\* The request has asked for an engine read or write and it has not begun.
Requested(p) == pc[p] \in {"read", "write"}

\* The request's engine read or write has ended, well or with an exception.
Completed(p) == pc[p] \in {"read_exit", "write_exit", "raise_exit"}

\* C29: a request outside the engine holds no lock and waits for none (the
\* lock is released when a read or write ends, well or not); a read that
\* creates the missing file does so under the lock it already holds, not
\* waiting for it again; and, file operations ending and coroutines being
\* resumed, every requested engine read or write gets the lock and ends.
C29_EveryRequestCompletes ==
    /\ [](\A p \in Procs :
            /\ pc[p] = "idle"
                 => (lock.holder # p /\ \A i \in 1 .. Len(lock.waiters) : lock.waiters[i] # p)
            /\ pc[p] \in {"load_dump", "write_dump"}
                 => (lock.holder = p /\ \A i \in 1 .. Len(lock.waiters) : lock.waiters[i] # p))
    /\ \A p \in Procs : Requested(p) ~> Completed(p)

\* A request waits for the lock while the holder's file operation has
\* failed and its exception has not yet left the engine.
C29_Witness ==
    \E p, q \in Procs :
        /\ p # q /\ pc[p] = "raise_exit" /\ lock.holder = p
        /\ Requested(q) /\ lock.waiters = <<q>>

\* The file exists and does not hold a collection: zero bytes, text that is
\* not JSON, JSON that is not an object, bytes that are not text.
Corrupt(f) == f.kind \in {"truncated", "garbage", "nonmapping", "nottext"}

\* C30: an engine read of a file that exists leaves the file as it is; when
\* the content is corrupt the read returns the empty collection (so does
\* every later one, the content still being there); corrupt content changes
\* only in the file operation of an engine write (its open empties the file,
\* its json.dump fills it) or when the read that created the file fills it,
\* and the write that opens a corrupt file carries the empty collection plus
\* the change of its mutation: the one new entry.
C30_ReadLeavesFileAlone ==
    [][\A p \in Procs :
         /\ (pc[p] = "read" /\ file # Missing /\ pc'[p] # pc[p]) => file' = file
         /\ (pc[p] = "read" /\ Corrupt(file) /\ pc'[p] # pc[p])
              => (pc'[p] = "read_exit" /\ data'[p] = << >>)
         /\ (Corrupt(file) /\ file' # file)
              => \E q \in Procs :
                    \/ pc[q] = "write" /\ pc'[q] = "write_dump" /\ file' = Truncated
                    \/ /\ file = Truncated
                       /\ \/ pc[q] = "write_dump" /\ file' = Doc(data[q])
                          \/ pc[q] = "load_dump" /\ file' = Doc(<< >>)
         /\ (Corrupt(file) /\ pc[p] = "write" /\ pc'[p] = "write_dump")
              => /\ op[p].name = "create"
                 /\ data[p] = <<[key |-> op[p].task_id,
                                 val |-> model_dump_json(op[p].record[1])]>>
      ]_vars

====
